---- MODULE Spec2Model ----
(***************************************************************************)
(* Meet-Me-Halfway: the route midpoint (getMidpoint in results-map.tsx),   *)
(* the POI scoring / ranking of the PointsOfInterest component and the     *)
(* renders, route fetches and POI searches of the ResultsMap component;    *)
(* the favorites kept in localStorage, the coordinates Map validates       *)
(* (part_002), the location actions, the two result pages (page.tsx,       *)
(* part_000) and the route selection of MeetMeHalfwayApp.                  *)
(*                                                                         *)
(* Numbers.  Coordinates are integer grid degrees and a distance is        *)
(* measured in the arc length of one grid degree (R * PI / 180 metres), so *)
(* that the haversine distance of two points on one meridian, or of two    *)
(* points on the equator, is the exact integer |difference|.  Results of   *)
(* the interpolation are exact rationals [num, den]; den = 0 is a number   *)
(* that is not finite (num = 0: NaN, num = 1 or -1: the infinities).       *)
(* Floating-point rounding is not modelled.                                *)
(***************************************************************************)
EXTENDS Integers, Sequences, FiniteSets, TLC

VARIABLES
    route,          \* getMidpoint's argument: Null or [coordinates, distance]
    midpoint,       \* what getMidpoint returned (NotCalled before the call)
    pois,           \* PointsOfInterest prop: the candidate list
    favorites,      \* useState<string[]>([])
    poisWithTravelTimes, \* useState<PoiWithTravelTimes[]>([])
    isLoading,      \* useState(true)
    activeTab,      \* useState<FilterOption>("all")
    sortBy,         \* useState<SortOption>("totalTime")
    maxTimeDifference,   \* useState<MaxTimeDifference>(15)
    showOnlyFavorites,   \* useState(false)
    passes,         \* the calculateTravelTimes invocations in flight
    savedFavorites, \* the localStorage item "mmh-favorites", parsed
    props,          \* ResultsMap props: the four coordinate strings and
                    \* selectedRoute
    mainRoute,      \* useState<RouteData | null>(null)
    alternateRoute, \* useState<RouteData | null>(null)
    isClient,       \* useState(false)
    mainPois,       \* useState<any[]>([])
    alternatePois,  \* useState<any[]>([])
    isLoadingPois,  \* useState(false)
    fetchRoutes,    \* where the fetchRoutes invocation stands
    searches,       \* the fetchPois invocations awaiting searchPoisAction
    rendered,       \* what the last render of ResultsMap closed over and
                    \* handed to Map
    stale,          \* state was set since the last render
    issued,         \* the searchPoisAction calls made so far
    appData,        \* MeetMeHalfwayApp: useState<AppData>({})
    page,           \* a request of ResultsPage or SearchResultsPage
    mapIn,          \* the props Map is called with
    mapOut,         \* the props Map hands to MapComponent
    locationsTable, \* the rows of the locations table, oldest first
    actionState     \* what the last location action returned

vars == <<route, midpoint, pois, favorites, poisWithTravelTimes, isLoading,
          activeTab, sortBy, maxTimeDifference, showOnlyFavorites, passes,
          props, mainRoute, alternateRoute, isClient, mainPois,
          alternatePois, isLoadingPois, fetchRoutes, searches, rendered,
          stale, issued, savedFavorites, appData, page, mapIn, mapOut,
          locationsTable, actionState>>

mapVars == <<props, mainRoute, alternateRoute, isClient, mainPois,
             alternatePois, isLoadingPois, fetchRoutes, searches, rendered,
             stale, issued>>

poiVars == <<pois, favorites, poisWithTravelTimes, isLoading, activeTab,
             sortBy, maxTimeDifference, showOnlyFavorites, passes,
             savedFavorites>>

hostVars == <<appData, page, mapIn, mapOut, locationsTable, actionState>>

midVars == <<route, midpoint>>

----------------------------------------------------------------------------
(* Bounds *)

MaxPoints == 3      \* longest polyline
MaxCoord == 2       \* grid degrees 0..MaxCoord on each axis
MaxTotal == 5       \* largest route.distance supplied
MaxPois == 2        \* longest candidate list of a scoring pass
MaxRankPois == 2    \* longest scored list that is filtered and sorted
MaxRacePois == 1    \* longest candidate list of two overlapping passes
MaxSearches == 3    \* searchPoisAction calls followed per mount

----------------------------------------------------------------------------
(* Values *)

Null == [kind |-> "null"]
NotCalled == [kind |-> "notCalled"]
TypeError == [kind |-> "TypeError"]
Unmounted == [kind |-> "unmounted"]

Abs(x) == IF x < 0 THEN -x ELSE x

RECURSIVE GCD(_, _)
GCD(a, b) == IF b = 0 THEN a ELSE GCD(b, a % b)

\* The rational n/d in lowest terms with a positive denominator; d = 0 is
\* the NaN a division by zero leads to in getMidpoint.
Rat(n, d) ==
    IF d = 0 THEN [num |-> 0, den |-> 0]
    ELSE LET g == GCD(Abs(n), Abs(d))
             s == IF d < 0 THEN -1 ELSE 1
         IN  [num |-> s * (n \div g), den |-> s * (d \div g)]

\* The numbers that are not finite have den = 0: NaN, Infinity, -Infinity.
NaN == [num |-> 0, den |-> 0]
Infinity == [num |-> 1, den |-> 0]
NegativeInfinity == [num |-> -1, den |-> 0]

IsNaN(q) == q.den = 0 /\ q.num = 0

\* Number.isFinite
isFinite(q) == q.den # 0

\* A GeoJSON position is [lon, lat].
Position == (0..MaxCoord) \X (0..MaxCoord)

\* Haversine distance of two positions (lines 61-77).  On one meridian the
\* central angle is |lat2 - lat1|, on the equator it is |lon2 - lon1|.
segmentDistance(point1, point2) ==
    IF point1[1] = point2[1]
    THEN Abs(point2[2] - point1[2])
    ELSE Abs(point2[1] - point1[1])

\* The pairs of positions whose haversine distance the grid represents
\* exactly.
Exact(point1, point2) ==
    \/ point1[1] = point2[1]
    \/ point1[2] = 0 /\ point2[2] = 0

\* line 79: currentDistance + segmentDistance > totalDistance / 2
\* (crossesMutant: the comparison written >=)
crossesMutant(currentDistance, segDist, totalDistance) ==
    2 * (currentDistance + segDist) >= totalDistance

crosses(currentDistance, segDist, totalDistance) ==
    2 * (currentDistance + segDist) > totalDistance

\* lines 81-84: the point at ratio = (totalDistance/2 - currentDistance) /
\* segmentDistance between point1 and point2.
\* (interpolateMutant: the ratio taken without subtracting currentDistance)
interpolateMutant(point1, point2, currentDistance, segDist, totalDistance) ==
    LET rn == totalDistance
        rd == 2 * segDist
    IN  [kind |-> "point",
         lat |-> Rat(point1[2] * rd + rn * (point2[2] - point1[2]), rd),
         lng |-> Rat(point1[1] * rd + rn * (point2[1] - point1[1]), rd)]

interpolate(point1, point2, currentDistance, segDist, totalDistance) ==
    LET rn == totalDistance - 2 * currentDistance
        rd == 2 * segDist
    IN  [kind |-> "point",
         lat |-> Rat(point1[2] * rd + rn * (point2[2] - point1[2]), rd),
         lng |-> Rat(point1[1] * rd + rn * (point2[1] - point1[1]), rd)]

\* lines 91-96: the middle coordinate; coordinates[0] of an empty array is
\* undefined and reading its [1] throws.
\* (middleCoordinateMutant: the middle taken as floor((length - 1) / 2))
middleCoordinateMutant(coordinates) ==
    IF Len(coordinates) = 0 THEN TypeError
    ELSE LET middleIndex == (Len(coordinates) - 1) \div 2
         IN  [kind |-> "point",
              lat |-> Rat(coordinates[middleIndex + 1][2], 1),
              lng |-> Rat(coordinates[middleIndex + 1][1], 1)]

middleCoordinate(coordinates) ==
    LET middleIndex == Len(coordinates) \div 2
    IN  IF middleIndex + 1 > Len(coordinates) THEN TypeError
        ELSE [kind |-> "point",
              lat |-> Rat(coordinates[middleIndex + 1][2], 1),
              lng |-> Rat(coordinates[middleIndex + 1][1], 1)]

\* lines 57-89: the loop from index i (1-based) with the distance walked.
\* (midpointLoopMutant: line 88, currentDistance += segmentDistance, left out)
RECURSIVE midpointLoopMutant(_, _, _, _)
midpointLoopMutant(coordinates, totalDistance, i, currentDistance) ==
    IF i > Len(coordinates) - 1
    THEN middleCoordinate(coordinates)
    ELSE LET point1 == coordinates[i]
             point2 == coordinates[i + 1]
             segDist == segmentDistance(point1, point2)
         IN  IF crosses(currentDistance, segDist, totalDistance)
             THEN interpolate(point1, point2, currentDistance, segDist,
                              totalDistance)
             ELSE midpointLoopMutant(coordinates, totalDistance, i + 1,
                                     currentDistance)

RECURSIVE midpointLoop(_, _, _, _)
midpointLoop(coordinates, totalDistance, i, currentDistance) ==
    IF i > Len(coordinates) - 1
    THEN middleCoordinate(coordinates)
    ELSE LET point1 == coordinates[i]
             point2 == coordinates[i + 1]
             segDist == segmentDistance(point1, point2)
         IN  IF crosses(currentDistance, segDist, totalDistance)
             THEN interpolate(point1, point2, currentDistance, segDist,
                              totalDistance)
             ELSE midpointLoop(coordinates, totalDistance, i + 1,
                               currentDistance + segDist)

\* lines 47-97
getMidpoint(r) ==
    IF r.kind = "null" THEN Null
    ELSE midpointLoop(r.coordinates, r.distance, 1, 0)

----------------------------------------------------------------------------
(* Routes the midpoint is asked of *)

SeqsUpTo(S, n) == UNION {[1..k -> S] : k \in 0..n}

Polylines ==
    {c \in SeqsUpTo(Position, MaxPoints) :
        \A i \in 1..(Len(c) - 1) : Exact(c[i], c[i + 1])}

Routes ==
    {[kind |-> "route", coordinates |-> c, distance |-> d] :
        c \in Polylines, d \in (-1)..MaxTotal}

----------------------------------------------------------------------------
(* POIs, route lookups and the scoring of one POI (part_003)               *)

\* An optional field is the empty set when absent (undefined) and the
\* singleton of its value when present.
undefined == {}
Def(v) == {v}
val(o) == CHOOSE x \in o : TRUE
present(o) == o # undefined

\* JavaScript truthiness of an optional number, string and boolean.
truthyNum(o) == present(o) /\ val(o) # 0
truthyStr(o) == present(o) /\ val(o) # ""
truthyBool(o) == present(o) /\ val(o)

\* A PoiResponse as the component receives it: the scored fields are absent
\* unless the caller supplied them (part_000 lines 160-172 supplies the two
\* stored travel times and no osm_id).
Poi(name, type, osm_id, fromStart, fromEnd) ==
    [name |-> name, type |-> type, osm_id |-> osm_id,
     travelTimeFromStart |-> fromStart, travelTimeFromEnd |-> fromEnd,
     distanceFromStart |-> undefined, distanceFromEnd |-> undefined,
     totalTravelTime |-> undefined, travelTimeDifference |-> undefined,
     isFavorite |-> undefined]

\* What awaiting getRouteAction gives: a rejection, a failure ActionState,
\* or a success with a duration (seconds) and a distance (metres).
Throw == [kind |-> "throw", isSuccess |-> FALSE,
          duration |-> undefined, distance |-> undefined]
Failure == [kind |-> "result", isSuccess |-> FALSE,
            duration |-> undefined, distance |-> undefined]
Ok(duration, distance) ==
    [kind |-> "result", isSuccess |-> TRUE,
     duration |-> Def(duration), distance |-> Def(distance)]
Pending == [kind |-> "pending", isSuccess |-> FALSE,
            duration |-> undefined, distance |-> undefined]

\* favorites.includes(x)
includes(list, x) == \E k \in 1..Len(list) : list[k] = x

\* lines 150-161: startRoute.isSuccess ? startRoute.data?.duration : undefined
fieldOf(routeResult, field) ==
    IF routeResult.isSuccess THEN routeResult[field] ELSE undefined

\* lines 163-167
totalTravelTimeOf(fromStart, fromEnd) ==
    IF present(fromStart) /\ present(fromEnd)
    THEN Def(val(fromStart) + val(fromEnd))
    ELSE undefined

\* lines 169-173
travelTimeDifferenceOf(fromStart, fromEnd) ==
    IF present(fromStart) /\ present(fromEnd)
    THEN Def(Abs(val(fromEnd) - val(fromStart)))
    ELSE undefined

\* lines 175-184: the object the try block returns.
enriched(poi, startRoute, endRoute, favs) ==
    LET fromStart == fieldOf(startRoute, "duration")
        fromEnd == fieldOf(endRoute, "duration")
    IN  [poi EXCEPT
            !.travelTimeFromStart = fromStart,
            !.travelTimeFromEnd = fromEnd,
            !.distanceFromStart = fieldOf(startRoute, "distance"),
            !.distanceFromEnd = fieldOf(endRoute, "distance"),
            !.totalTravelTime = totalTravelTimeOf(fromStart, fromEnd),
            !.travelTimeDifference = travelTimeDifferenceOf(fromStart, fromEnd),
            !.isFavorite =
                Def(includes(favs, IF truthyStr(poi.osm_id)
                                   THEN val(poi.osm_id) ELSE ""))]

\* lines 185-188: the catch block returns the POI it was given.
caught(poi) == poi

\* lines 132-189: the callback of pois.map for one POI, given what its two
\* awaits settle to (endRoute is never awaited when startRoute rejects).
scorePoi(poi, startRoute, endRoute, favs) ==
    IF startRoute.kind = "throw" \/ endRoute.kind = "throw"
    THEN caught(poi)
    ELSE enriched(poi, startRoute, endRoute, favs)

----------------------------------------------------------------------------
(* Category, filter and sort (part_003 lines 273-326)                      *)

\* type.toLowerCase() on the tags of the model.
toLowerCase(type) ==
    CASE type = "Restaurant" -> "restaurant"
      [] type = "HOTEL" -> "hotel"
      [] OTHER -> type

\* lines 273-286
\* (getPoiCategoryMutant: hostel listed with the activities)
getPoiCategoryMutant(type) ==
    LET t == toLowerCase(type)
    IN  IF t \in {"restaurant", "cafe", "bar", "pub", "fast_food"}
        THEN "food"
        ELSE IF t \in {"park", "cinema", "theatre", "theater", "museum",
                       "hostel"}
        THEN "activities"
        ELSE IF t \in {"hotel", "guest_house"}
        THEN "lodging"
        ELSE "other"

getPoiCategory(type) ==
    LET t == toLowerCase(type)
    IN  IF t \in {"restaurant", "cafe", "bar", "pub", "fast_food"}
        THEN "food"
        ELSE IF t \in {"park", "cinema", "theatre", "theater", "museum"}
        THEN "activities"
        ELSE IF t \in {"hotel", "hostel", "guest_house"}
        THEN "lodging"
        ELSE "other"

\* lines 290-294
rejectedByCategory(poi) ==
    activeTab # "all" /\ getPoiCategory(poi.type) # activeTab

\* lines 296-302: travelTimeDifference / 60 > maxTimeDifference
\* (rejectedByTimeDifferenceMutant: the comparison written >=)
rejectedByTimeDifferenceMutant(poi) ==
    /\ truthyNum(poi.travelTimeDifference)
    /\ val(poi.travelTimeDifference) >= 60 * maxTimeDifference

rejectedByTimeDifference(poi) ==
    /\ truthyNum(poi.travelTimeDifference)
    /\ val(poi.travelTimeDifference) > 60 * maxTimeDifference

\* lines 304-307
rejectedByFavorites(poi) ==
    showOnlyFavorites /\ ~truthyBool(poi.isFavorite)

\* lines 289-310: the filter callback.
keeps(poi) ==
    /\ ~rejectedByCategory(poi)
    /\ ~rejectedByTimeDifference(poi)
    /\ ~rejectedByFavorites(poi)

\* a.name.localeCompare(b.name) on the names of the model.
NameRank(name) ==
    CASE name = "Alpha" -> 1
      [] name = "Beta" -> 2
      [] name = "Gamma" -> 3
      [] OTHER -> 4

localeCompare(a, b) ==
    IF NameRank(a) < NameRank(b) THEN -1
    ELSE IF NameRank(a) > NameRank(b) THEN 1 ELSE 0

\* x || 0 for an optional number
orZero(o) == IF truthyNum(o) THEN val(o) ELSE 0

\* lines 311-326: the comparator.
compare(a, b) ==
    CASE sortBy = "name" -> localeCompare(a.name, b.name)
      [] sortBy = "distanceFromStart" ->
            orZero(a.distanceFromStart) - orZero(b.distanceFromStart)
      [] sortBy = "distanceFromEnd" ->
            orZero(a.distanceFromEnd) - orZero(b.distanceFromEnd)
      [] sortBy = "totalTime" ->
            orZero(a.totalTravelTime) - orZero(b.totalTravelTime)
      [] sortBy = "timeDifference" ->
            orZero(a.travelTimeDifference) - orZero(b.travelTimeDifference)
      [] OTHER -> 0

\* Array.prototype.filter: the indices (into list) of the elements kept, in
\* order.  An index stands for the object reference the array holds.
\* (filterFromMutant: the rejected element spliced out of the array being
\* walked, so that the element behind it is passed over untested)
RECURSIVE filterFromMutant(_, _)
filterFromMutant(list, i) ==
    IF i > Len(list) THEN <<>>
    ELSE IF keeps(list[i]) THEN <<i>> \o filterFromMutant(list, i + 1)
    ELSE IF i + 1 > Len(list) THEN <<>>
    ELSE <<i + 1>> \o filterFromMutant(list, i + 2)

RECURSIVE filterFrom(_, _)
filterFrom(list, i) ==
    IF i > Len(list) THEN <<>>
    ELSE IF keeps(list[i]) THEN <<i>> \o filterFrom(list, i + 1)
    ELSE filterFrom(list, i + 1)

\* One insertion of Array.prototype.sort, which is stable (ECMAScript 2019,
\* 23.1.3.30): x goes behind every element that does not compare greater.
\* (insertMutant: an unstable sort, x goes before the elements it ties with)
RECURSIVE insertMutant(_, _, _)
insertMutant(list, sorted, x) ==
    IF sorted = <<>> THEN <<x>>
    ELSE IF compare(list[sorted[Len(sorted)]], list[x]) >= 0
    THEN Append(insertMutant(list, SubSeq(sorted, 1, Len(sorted) - 1), x),
                sorted[Len(sorted)])
    ELSE Append(sorted, x)

RECURSIVE insert(_, _, _)
insert(list, sorted, x) ==
    IF sorted = <<>> THEN <<x>>
    ELSE IF compare(list[sorted[Len(sorted)]], list[x]) > 0
    THEN Append(insert(list, SubSeq(sorted, 1, Len(sorted) - 1), x),
                sorted[Len(sorted)])
    ELSE Append(sorted, x)

RECURSIVE sortFrom(_, _, _)
sortFrom(list, idx, n) ==
    IF n = 0 THEN <<>>
    ELSE insert(list, sortFrom(list, idx, n - 1), idx[n])

\* list.sort(compare) of the elements of list at the indices idx
sort(list, idx) == sortFrom(list, idx, Len(idx))

\* lines 288-326: the indices of poisWithTravelTimes rendered, in order
sortedAndFilteredIdx ==
    sort(poisWithTravelTimes, filterFrom(poisWithTravelTimes, 1))

\* lines 288-326
sortedAndFilteredPois ==
    [k \in 1..Len(sortedAndFilteredIdx) |->
        poisWithTravelTimes[sortedAndFilteredIdx[k]]]

----------------------------------------------------------------------------
(* ResultsMap (results-map.tsx lines 99-345): values                       *)

\* parseFloat of the coordinate strings of the model; "abc" stands for a
\* string that is not numeric.
parseFloat(str) ==
    CASE str = "0" -> Rat(0, 1)
      [] str = "1" -> Rat(1, 1)
      [] str = "2" -> Rat(2, 1)
      [] OTHER -> Rat(0, 0)

\* a || b on numbers: NaN and 0 are falsy
orElse(a, b) == IF IsNaN(a) \/ a.num = 0 THEN b ELSE a

\* lines 272-273: (currentMidpoint?.lat ?? parseFloat(startLat)) || 0
midpointLatProp(currentMidpoint) ==
    orElse(IF currentMidpoint.kind = "null" THEN parseFloat(props.startLat)
           ELSE currentMidpoint.lat, Rat(0, 1))

midpointLngProp(currentMidpoint) ==
    orElse(IF currentMidpoint.kind = "null" THEN parseFloat(props.startLng)
           ELSE currentMidpoint.lng, Rat(0, 1))

\* part_002 lines 38-47: Map replaces a coordinate that is not finite; the
\* marker and the centre of map-component are at the validated midpoint.
validCoordinateMutant(q, fallback) == IF IsNaN(q) THEN fallback ELSE q

validCoordinate(q, fallback) == IF isFinite(q) THEN q ELSE fallback

validMidpointLat(midpointLat) ==
    validCoordinate(midpointLat,
        validCoordinate(orElse(parseFloat(props.startLat), Rat(0, 1)),
                        Rat(0, 1)))

validMidpointLng(midpointLng) ==
    validCoordinate(midpointLng,
        validCoordinate(orElse(parseFloat(props.startLng), Rat(0, 1)),
                        Rat(0, 1)))

\* lines 124-127
currentMidpoint ==
    IF props.selectedRoute = "main" THEN getMidpoint(mainRoute)
    ELSE getMidpoint(alternateRoute)

\* What a render closes over and shows: the placeholder of lines 217-227
\* while isClient is false, the Map of lines 265-285 afterwards.
renderOf(midpointNow) ==
    [isClient |-> isClient,
     mainRoute |-> mainRoute,
     alternateRoute |-> alternateRoute,
     currentMidpoint |-> midpointNow,
     shows |-> IF isClient THEN "map" ELSE "placeholder",
     midpointLat |-> validMidpointLat(midpointLatProp(midpointNow)),
     midpointLng |-> validMidpointLng(midpointLngProp(midpointNow))]

\* The props the pages hand over (results/page.tsx lines 34-46 put "0" for
\* a missing parameter): a start and an end on one meridian, and a start
\* latitude that is not numeric.
MapProps ==
    {[startLat |-> sl, startLng |-> "0", endLat |-> "2", endLng |-> "0",
      selectedRoute |-> sel] :
        sl \in {"0", "abc"}, sel \in {"main", "alternate"}}

\* The routes getRouteAction and getAlternateRouteAction answer with.
MainRouteData ==
    [kind |-> "route", coordinates |-> <<<<0, 0>>, <<0, 1>>, <<0, 2>>>>,
     distance |-> 2]

AlternateRouteData ==
    [kind |-> "route", coordinates |-> <<<<0, 0>>, <<1, 0>>, <<1, 2>>>>,
     distance |-> 3]

Success(data) == [kind |-> "result", isSuccess |-> TRUE, data |-> data]

FetchFailure == [kind |-> "result", isSuccess |-> FALSE]

FetchThrow == [kind |-> "throw", isSuccess |-> FALSE]

MainRouteResults == {FetchThrow, FetchFailure, Success(MainRouteData)}

AlternateRouteResults == {FetchThrow, FetchFailure, Success(AlternateRouteData)}

\* The POIs searchPoisAction finds around a centre; [] before any search.
NoPois == [around |-> Null]

PoisAround(center) == [around |-> center]

SearchResults(center) == {FetchThrow, FetchFailure, Success(PoisAround(center))}

\* The state of the specifications in which no page is requested, Map is
\* not called and no location action runs.
NoHost ==
    /\ appData = Unmounted
    /\ page = Unmounted
    /\ mapIn = NotCalled
    /\ mapOut = NotCalled
    /\ locationsTable = <<>>
    /\ actionState = NotCalled

\* The state of the specifications that mount no ResultsMap.
NoResultsMap ==
    /\ props = [startLat |-> "0", startLng |-> "0", endLat |-> "0",
                endLng |-> "0", selectedRoute |-> "main"]
    /\ mainRoute = Null
    /\ alternateRoute = Null
    /\ isClient = FALSE
    /\ mainPois = NoPois
    /\ alternatePois = NoPois
    /\ isLoadingPois = FALSE
    /\ fetchRoutes = "notStarted"
    /\ searches = <<>>
    /\ rendered = renderOf(Null)
    /\ stale = FALSE
    /\ issued = <<>>

----------------------------------------------------------------------------
(* The scoring pass: calculateTravelTimes (part_003 lines 125-207)         *)

\* What the lookup from the start and the lookup to the end can settle to.
StartRouteResults == {Throw, Failure, Ok(300, 1000)}
EndRouteResults == {Throw, Failure, Ok(900, 2000)}

\* Candidates as searchPoisAction returns them (results-map.tsx line 335)
\* and as part_000 lines 160-172 formats the stored ones.
SearchPool ==
    {Poi("Alpha", "restaurant", Def("n1"), undefined, undefined),
     Poi("Beta", "park", undefined, undefined, undefined)}

\* The osm_ids of the model.
PoiIds == {"n1"}

DbPool ==
    {Poi("Gamma", "cafe", undefined, Def(600), Def(900)),
     Poi("Alpha", "hotel", undefined, Def(300), Def(300))}

CandidateLists == SeqsUpTo(SearchPool, MaxPois) \cup SeqsUpTo(DbPool, MaxPois)

\* lines 131-132: pois.map starts every callback, each suspended at its
\* first await; the pass keeps the pois and favorites it closed over.
newPass(candidates, favs) ==
    [pois |-> candidates,
     favorites |-> favs,
     slots |-> [i \in 1..Len(candidates) |->
                  [pc |-> "startRoute", startRoute |-> Pending,
                   endRoute |-> Pending, value |-> candidates[i]]]]

RemoveAt(list, p) ==
    [k \in 1..(Len(list) - 1) |-> IF k < p THEN list[k] ELSE list[k + 1]]

\* lines 135-140 settle: the first await of POI i of pass p.
StartRouteSettles(p, i, res) ==
    /\ passes[p].slots[i].pc = "startRoute"
    /\ passes' = [passes EXCEPT ![p].slots[i] =
            IF res.kind = "throw"
            THEN [pc |-> "done", startRoute |-> res, endRoute |-> Pending,
                  value |-> scorePoi(passes[p].pois[i], res, Pending,
                                     passes[p].favorites)]
            ELSE [@ EXCEPT !.pc = "endRoute", !.startRoute = res]]
    /\ UNCHANGED mapVars
    /\ UNCHANGED hostVars
    /\ UNCHANGED savedFavorites
    /\ UNCHANGED <<route, midpoint, pois, favorites, poisWithTravelTimes,
                   isLoading, activeTab, sortBy, maxTimeDifference,
                   showOnlyFavorites>>

\* lines 143-188: the second await settles and the callback returns.
\* (EndRouteSettlesMutant: the callback reads the candidate through an index
\* shared by all callbacks, which the map has left at the last candidate)
EndRouteSettlesMutant(p, i, res) ==
    /\ passes[p].slots[i].pc = "endRoute"
    /\ passes' = [passes EXCEPT ![p].slots[i] =
            [@ EXCEPT !.pc = "done", !.endRoute = res,
                      !.value = scorePoi(passes[p].pois[Len(passes[p].pois)],
                                         passes[p].slots[i].startRoute, res,
                                         passes[p].favorites)]]
    /\ UNCHANGED mapVars
    /\ UNCHANGED hostVars
    /\ UNCHANGED savedFavorites
    /\ UNCHANGED <<route, midpoint, pois, favorites, poisWithTravelTimes,
                   isLoading, activeTab, sortBy, maxTimeDifference,
                   showOnlyFavorites>>

EndRouteSettles(p, i, res) ==
    /\ passes[p].slots[i].pc = "endRoute"
    /\ passes' = [passes EXCEPT ![p].slots[i] =
            [@ EXCEPT !.pc = "done", !.endRoute = res,
                      !.value = scorePoi(passes[p].pois[i],
                                         passes[p].slots[i].startRoute, res,
                                         passes[p].favorites)]]
    /\ UNCHANGED mapVars
    /\ UNCHANGED hostVars
    /\ UNCHANGED savedFavorites
    /\ UNCHANGED <<route, midpoint, pois, favorites, poisWithTravelTimes,
                   isLoading, activeTab, sortBy, maxTimeDifference,
                   showOnlyFavorites>>

\* lines 131, 190-193: Promise.all resolves once every callback returned.
\* (PassResolvesMutant: Promise.any in place of Promise.all, the list is
\* written as soon as one callback has returned)
PassResolvesMutant(p) ==
    /\ \E i \in 1..Len(passes[p].slots) : passes[p].slots[i].pc = "done"
    /\ poisWithTravelTimes' =
            [i \in 1..Len(passes[p].slots) |-> passes[p].slots[i].value]
    /\ isLoading' = FALSE
    /\ passes' = RemoveAt(passes, p)
    /\ UNCHANGED mapVars
    /\ UNCHANGED hostVars
    /\ UNCHANGED savedFavorites
    /\ UNCHANGED <<route, midpoint, pois, favorites, activeTab, sortBy,
                   maxTimeDifference, showOnlyFavorites>>

PassResolves(p) ==
    /\ \A i \in 1..Len(passes[p].slots) : passes[p].slots[i].pc = "done"
    /\ poisWithTravelTimes' =
            [i \in 1..Len(passes[p].slots) |-> passes[p].slots[i].value]
    /\ isLoading' = FALSE
    /\ passes' = RemoveAt(passes, p)
    /\ UNCHANGED mapVars
    /\ UNCHANGED hostVars
    /\ UNCHANGED savedFavorites
    /\ UNCHANGED <<route, midpoint, pois, favorites, activeTab, sortBy,
                   maxTimeDifference, showOnlyFavorites>>

\* lines 328-336
toggledMutant(prev, poiId) ==
    IF includes(prev, poiId)
    THEN SelectSeq(prev, LAMBDA id : id = poiId)
    ELSE Append(prev, poiId)

toggled(prev, poiId) ==
    IF includes(prev, poiId)
    THEN SelectSeq(prev, LAMBDA id : id # poiId)
    ELSE Append(prev, poiId)

\* lines 428-431 and 328-336: the star of a rendered card (the cards are
\* rendered only while not loading, line 391); favorites is a dependency of
\* the effect of lines 118-122, which stores a list that is not empty
\* (JSON.stringify and JSON.parse give an array of strings back as it
\* was), and of the effect of lines 125-207, which starts a pass.
ToggleFavorite(poiId) ==
    /\ ~isLoading
    /\ \E k \in 1..Len(sortedAndFilteredPois) :
          /\ truthyStr(sortedAndFilteredPois[k].osm_id)
          /\ val(sortedAndFilteredPois[k].osm_id) = poiId
    /\ favorites' = toggled(favorites, poiId)
    /\ savedFavorites' =
          IF Len(favorites') > 0 THEN Def(favorites') ELSE savedFavorites
    /\ isLoading' = TRUE
    /\ passes' = Append(passes, newPass(pois, favorites'))
    /\ UNCHANGED mapVars
    /\ UNCHANGED hostVars
    /\ UNCHANGED <<route, midpoint, pois, poisWithTravelTimes, activeTab,
                   sortBy, maxTimeDifference, showOnlyFavorites>>

\* lines 91-101 and the first run of the effect of lines 125-207
InitPoiState ==
    /\ favorites = <<>>
    /\ poisWithTravelTimes = <<>>
    /\ isLoading = TRUE
    /\ activeTab = "all"
    /\ sortBy = "totalTime"
    /\ maxTimeDifference = 15
    /\ showOnlyFavorites = FALSE
    /\ savedFavorites = undefined

Init ==
    /\ route = Null
    /\ midpoint = NotCalled
    /\ pois \in CandidateLists
    /\ InitPoiState
    /\ passes = <<newPass(pois, favorites)>>
    /\ NoResultsMap
    /\ NoHost

Next ==
    \/ \E p \in 1..Len(passes) : \E i \in 1..Len(passes[p].slots) :
          \E res \in StartRouteResults : StartRouteSettles(p, i, res)
    \/ \E p \in 1..Len(passes) : \E i \in 1..Len(passes[p].slots) :
          \E res \in EndRouteResults : EndRouteSettles(p, i, res)
    \/ \E p \in 1..Len(passes) : PassResolves(p)
    \/ \E poiId \in PoiIds : ToggleFavorite(poiId)

Spec == Init /\ [][Next]_vars

----------------------------------------------------------------------------
(* The scoring passes of a mount with saved favorites (part_003 104-207)   *)

\* What JSON.parse gives for the saved "mmh-favorites" item ("[]" is a
\* truthy string, so an empty saved list is set as well).
StoredFavorites == {<<>>, <<"n1">>}

\* The mount: the effect of lines 104-115 calls setFavorites(saved) and the
\* effect of lines 125-207 starts a pass with favorites = []; the render
\* that follows has a new favorites array, a dependency of that effect,
\* which starts a second pass while the lookups of the first are out.
InitRace ==
    /\ route = Null
    /\ midpoint = NotCalled
    /\ pois \in SeqsUpTo(SearchPool, MaxRacePois)
    /\ favorites \in StoredFavorites
    /\ poisWithTravelTimes = <<>>
    /\ isLoading = TRUE
    /\ activeTab = "all"
    /\ sortBy = "totalTime"
    /\ maxTimeDifference = 15
    /\ showOnlyFavorites = FALSE
    /\ passes = <<newPass(pois, <<>>), newPass(pois, favorites)>>
    /\ NoResultsMap
    /\ NoHost
    /\ savedFavorites = Def(favorites)

\* What the lookups of overlapping passes settle to.
RaceStartResults == {Failure, Ok(300, 1000)}
RaceEndResults == {Ok(900, 2000)}

NextRace ==
    \/ \E p \in 1..Len(passes) : \E i \in 1..Len(passes[p].slots) :
          \E res \in RaceStartResults : StartRouteSettles(p, i, res)
    \/ \E p \in 1..Len(passes) : \E i \in 1..Len(passes[p].slots) :
          \E res \in RaceEndResults : EndRouteSettles(p, i, res)
    \/ \E p \in 1..Len(passes) : PassResolves(p)
    \/ \E poiId \in PoiIds : ToggleFavorite(poiId)

SpecRace == InitRace /\ [][NextRace]_vars

----------------------------------------------------------------------------
(* The midpoint of a route: one call of getMidpoint                        *)

\* results-map.tsx lines 124-127
CallGetMidpoint ==
    /\ midpoint = NotCalled
    /\ midpoint' = getMidpoint(route)
    /\ UNCHANGED mapVars
    /\ UNCHANGED hostVars
    /\ UNCHANGED savedFavorites
    /\ UNCHANGED <<route, pois, favorites, poisWithTravelTimes, isLoading,
                   activeTab, sortBy, maxTimeDifference, showOnlyFavorites,
                   passes>>

InitMid ==
    /\ route \in Routes \cup {Null}
    /\ midpoint = NotCalled
    /\ pois = <<>>
    /\ InitPoiState
    /\ passes = <<>>
    /\ NoResultsMap
    /\ NoHost

NextMid == CallGetMidpoint

SpecMid == InitMid /\ [][NextMid]_vars

----------------------------------------------------------------------------
(* Filtering and sorting a scored list: the controls of lines 344-388      *)

FilterOptions == {"all", "food", "activities", "lodging", "other"}
SortOptions ==
    {"name", "distanceFromStart", "distanceFromEnd", "totalTime",
     "timeDifference"}

\* lines 375-388: onValueChange of the tabs
SetActiveTab(value) ==
    /\ activeTab # value
    /\ activeTab' = value
    /\ UNCHANGED mapVars
    /\ UNCHANGED hostVars
    /\ UNCHANGED savedFavorites
    /\ UNCHANGED <<route, midpoint, pois, favorites, poisWithTravelTimes,
                   isLoading, sortBy, maxTimeDifference, showOnlyFavorites,
                   passes>>

\* lines 344-362: onValueChange of the sort select
SetSortBy(value) ==
    /\ sortBy # value
    /\ sortBy' = value
    /\ UNCHANGED mapVars
    /\ UNCHANGED hostVars
    /\ UNCHANGED savedFavorites
    /\ UNCHANGED <<route, midpoint, pois, favorites, poisWithTravelTimes,
                   isLoading, activeTab, maxTimeDifference, showOnlyFavorites,
                   passes>>

\* lines 363-370: the favorites-only button
ToggleShowOnlyFavorites ==
    /\ showOnlyFavorites' = ~showOnlyFavorites
    /\ UNCHANGED mapVars
    /\ UNCHANGED hostVars
    /\ UNCHANGED savedFavorites
    /\ UNCHANGED <<route, midpoint, pois, favorites, poisWithTravelTimes,
                   isLoading, activeTab, sortBy, maxTimeDifference, passes>>

\* The type tags of the scored lists: those the category mapping names,
\* one it does not, and two that are not lower case.
TypeTags ==
    <<"restaurant", "cafe", "bar", "pub", "fast_food", "park", "cinema",
      "theatre", "theater", "museum", "hotel", "hostel", "guest_house",
      "library", "Restaurant", "HOTEL">>

\* What the two lookups of a scored POI settled to.
Profiles ==
    <<<<Ok(300, 1000), Ok(300, 1000)>>,
      <<Ok(300, 1000), Ok(1200, 2000)>>,
      <<Ok(300, 1000), Ok(1201, 2000)>>,
      <<Failure, Ok(300, 1000)>>,
      <<Throw, Pending>>,
      <<Ok(1200, 2000), Ok(300, 1000)>>,
      <<Ok(0, 0), Ok(0, 0)>>>>

RankNames == <<"Alpha", "Beta", "Gamma">>
RankIds == <<Def("n1"), Def("n2"), undefined>>

\* Candidate k of the ranking runs and what its lookups settled to.
RankCandidate(k) ==
    Poi(RankNames[((k - 1) % 3) + 1], TypeTags[k], RankIds[((k - 1) % 3) + 1],
        undefined, undefined)

RankProfile(k) == Profiles[((k - 1) % Len(Profiles)) + 1]

\* A pass over the chosen candidates has resolved (lines 192-193).
InitRank ==
    /\ route = Null
    /\ midpoint = NotCalled
    /\ favorites \in {<<>>, <<"n1">>, <<"n2">>}
    /\ \E cs \in SeqsUpTo(1..Len(TypeTags), MaxRankPois) :
          /\ pois = [i \in 1..Len(cs) |-> RankCandidate(cs[i])]
          /\ poisWithTravelTimes =
                [i \in 1..Len(cs) |->
                    scorePoi(RankCandidate(cs[i]), RankProfile(cs[i])[1],
                             RankProfile(cs[i])[2], favorites)]
    /\ isLoading = FALSE
    /\ activeTab = "all"
    /\ sortBy = "totalTime"
    /\ maxTimeDifference = 15
    /\ showOnlyFavorites = FALSE
    /\ passes = <<>>
    /\ NoResultsMap
    /\ NoHost
    /\ savedFavorites = IF favorites = <<>> THEN undefined ELSE Def(favorites)

NextRank ==
    \/ \E value \in FilterOptions : SetActiveTab(value)
    \/ \E value \in SortOptions : SetSortBy(value)
    \/ ToggleShowOnlyFavorites

SpecRank == InitRank /\ [][NextRank]_vars

----------------------------------------------------------------------------
(* ResultsMap: renders, effects and the awaits they start                  *)

\* The dependency array of the POI effect (line 212) differs from the one
\* of the last render: getMidpoint returns a new object on every call
\* (lines 83-84 and 93-96), so a non-null currentMidpoint never equals the
\* previous one; the other dependencies are compared as they are.
poiDepsChanged(midpointNow) ==
    \/ midpointNow.kind # "null"
    \/ rendered.currentMidpoint.kind # "null"
    \/ rendered.mainRoute # mainRoute
    \/ rendered.alternateRoute # alternateRoute
    \/ rendered.isClient # isClient

startsSearchMutant(midpointNow) ==
    /\ poiDepsChanged(midpointNow)
    /\ mainRoute.kind # "null" \/ alternateRoute.kind # "null"
    /\ isClient

\* lines 172-212: the effect calls fetchPois, which gets past line 174
startsSearch(midpointNow) ==
    /\ poiDepsChanged(midpointNow)
    /\ mainRoute.kind # "null" \/ alternateRoute.kind # "null"
    /\ isClient
    /\ midpointNow.kind # "null"

\* A render of ResultsMap and the effects it schedules: the effect of lines
\* 136-169 starts fetchRoutes when isClient turned true, the effect of
\* lines 172-212 starts fetchPois (setIsLoadingPois(true), then the await).
Render ==
    /\ stale
    /\ LET midpointNow == currentMidpoint
       IN  /\ startsSearch(midpointNow) => Len(issued) < MaxSearches
           /\ rendered' = renderOf(midpointNow)
           /\ fetchRoutes' =
                 IF isClient /\ ~rendered.isClient THEN "main"
                 ELSE fetchRoutes
           /\ IF startsSearch(midpointNow)
              THEN /\ isLoadingPois' = TRUE
                   /\ stale' = ~isLoadingPois
                   /\ searches' =
                         Append(searches,
                                [center |-> midpointNow,
                                 selectedRoute |-> props.selectedRoute])
                   /\ issued' =
                         Append(issued,
                                [center |-> midpointNow,
                                 selectedRoute |-> props.selectedRoute,
                                 mainRoute |-> mainRoute,
                                 alternateRoute |-> alternateRoute])
              ELSE /\ stale' = FALSE
                   /\ UNCHANGED <<isLoadingPois, searches, issued>>
    /\ UNCHANGED <<props, mainRoute, alternateRoute, isClient, mainPois,
                   alternatePois>>
    /\ UNCHANGED <<route, midpoint>>
    /\ UNCHANGED poiVars
    /\ UNCHANGED hostVars

\* lines 140-148: the await of getRouteAction settles; a throw leaves the
\* try block (line 161), so the alternate route is not asked for.
MainRouteSettles(res) ==
    /\ fetchRoutes = "main"
    /\ fetchRoutes' = IF res.kind = "throw" THEN "done" ELSE "alternate"
    /\ mainRoute' = IF res.isSuccess THEN res.data ELSE mainRoute
    /\ stale' = (stale \/ res.isSuccess)
    /\ UNCHANGED <<props, alternateRoute, isClient, mainPois, alternatePois,
                   isLoadingPois, searches, rendered, issued>>
    /\ UNCHANGED <<route, midpoint>>
    /\ UNCHANGED poiVars
    /\ UNCHANGED hostVars

\* lines 151-160: the await of getAlternateRouteAction settles
\* (showAlternateRoute is true already).
AlternateRouteSettles(res) ==
    /\ fetchRoutes = "alternate"
    /\ fetchRoutes' = "done"
    /\ alternateRoute' = IF res.isSuccess THEN res.data ELSE alternateRoute
    /\ stale' = (stale \/ res.isSuccess)
    /\ UNCHANGED <<props, mainRoute, isClient, mainPois, alternatePois,
                   isLoadingPois, searches, rendered, issued>>
    /\ UNCHANGED <<route, midpoint>>
    /\ UNCHANGED poiVars
    /\ UNCHANGED hostVars

SearchSettlesMutant(k, res) ==
    /\ mainPois' =
          IF res.isSuccess /\ searches[k].selectedRoute # "main"
          THEN res.data ELSE mainPois
    /\ alternatePois' =
          IF res.isSuccess /\ searches[k].selectedRoute = "main"
          THEN res.data ELSE alternatePois
    /\ isLoadingPois' = FALSE
    /\ stale' = (stale \/ res.isSuccess \/ isLoadingPois)
    /\ searches' = RemoveAt(searches, k)
    /\ UNCHANGED <<props, mainRoute, alternateRoute, isClient, fetchRoutes,
                   rendered, issued>>
    /\ UNCHANGED <<route, midpoint>>
    /\ UNCHANGED poiVars
    /\ UNCHANGED hostVars

\* lines 177-206: the await of searchPoisAction of invocation k settles;
\* the result goes to the list of the selectedRoute the invocation closed
\* over, and the finally block clears isLoadingPois.
SearchSettles(k, res) ==
    /\ mainPois' =
          IF res.isSuccess /\ searches[k].selectedRoute = "main"
          THEN res.data ELSE mainPois
    /\ alternatePois' =
          IF res.isSuccess /\ searches[k].selectedRoute # "main"
          THEN res.data ELSE alternatePois
    /\ isLoadingPois' = FALSE
    /\ stale' = (stale \/ res.isSuccess \/ isLoadingPois)
    /\ searches' = RemoveAt(searches, k)
    /\ UNCHANGED <<props, mainRoute, alternateRoute, isClient, fetchRoutes,
                   rendered, issued>>
    /\ UNCHANGED <<route, midpoint>>
    /\ UNCHANGED poiVars
    /\ UNCHANGED hostVars

\* The mount: the first render shows the placeholder, and of its effects
\* only the one of lines 119-121 acts (setIsClient(true)).
InitMap ==
    /\ route = Null
    /\ midpoint = NotCalled
    /\ pois = <<>>
    /\ InitPoiState
    /\ passes = <<>>
    /\ props \in MapProps
    /\ mainRoute = Null
    /\ alternateRoute = Null
    /\ isClient = TRUE
    /\ mainPois = NoPois
    /\ alternatePois = NoPois
    /\ isLoadingPois = FALSE
    /\ fetchRoutes = "notStarted"
    /\ searches = <<>>
    /\ rendered = [isClient |-> FALSE,
                   mainRoute |-> Null,
                   alternateRoute |-> Null,
                   currentMidpoint |-> Null,
                   shows |-> "placeholder",
                   midpointLat |-> validMidpointLat(midpointLatProp(Null)),
                   midpointLng |-> validMidpointLng(midpointLngProp(Null))]
    /\ stale = TRUE
    /\ issued = <<>>
    /\ NoHost

NextMap ==
    \/ Render
    \/ \E res \in MainRouteResults : MainRouteSettles(res)
    \/ \E res \in AlternateRouteResults : AlternateRouteSettles(res)
    \/ \E k \in 1..Len(searches) :
          \E res \in SearchResults(searches[k].center) : SearchSettles(k, res)

SpecMap == InitMap /\ [][NextMap]_vars

----------------------------------------------------------------------------
(* Properties of getMidpoint, checked under SpecMid                        *)

Called == midpoint # NotCalled

IsRoute == route.kind = "route"

\* Great-circle length of a segment of a polyline of the model, in grid
\* degrees of arc.
ArcLength(point1, point2) ==
    Abs(point2[1] - point1[1]) + Abs(point2[2] - point1[2])

\* Distance walked along the polyline c from its start to vertex i.
RECURSIVE Walked(_, _)
Walked(c, i) ==
    IF i <= 1 THEN 0 ELSE Walked(c, i - 1) + ArcLength(c[i - 1], c[i])

PathLength(c) == Walked(c, Len(c))

\* Segment i (from vertex i to vertex i + 1) takes the walk past half of d.
Exceeds(c, d, i) == 2 * Walked(c, i + 1) > d

SomeSegmentExceeds(c, d) == \E i \in 1..(Len(c) - 1) : Exceeds(c, d, i)

FirstExceeding(c, d) ==
    CHOOSE i \in 1..(Len(c) - 1) :
        Exceeds(c, d, i) /\ \A j \in 1..(i - 1) : ~Exceeds(c, d, j)

\* The returned point m lies on segment i of c, and the walk from the start
\* of c to m is exactly half of d.
HalfWayOn(c, d, i, m) ==
    LET lon1 == c[i][1]
        lat1 == c[i][2]
        ld == m.lat.den
        gd == m.lng.den
    IN  /\ ld > 0 /\ gd > 0
        /\ 2 * Walked(c, i) * ld * gd
             + 2 * Abs(m.lat.num - lat1 * ld) * gd
             + 2 * Abs(m.lng.num - lon1 * gd) * ld
           = d * ld * gd

\* m is the point at ratio (d/2 - walked) / segment length on segment i.
AtRatioOn(c, d, i, m) ==
    LET lon1 == c[i][1]
        lat1 == c[i][2]
        lon2 == c[i + 1][1]
        lat2 == c[i + 1][2]
        seg == ArcLength(c[i], c[i + 1])
        rn == d - 2 * Walked(c, i)
    IN  /\ seg > 0
        /\ m.lat = Rat(2 * seg * lat1 + rn * (lat2 - lat1), 2 * seg)
        /\ m.lng = Rat(2 * seg * lon1 + rn * (lon2 - lon1), 2 * seg)

WellFormedRoute ==
    /\ IsRoute
    /\ Len(route.coordinates) >= 2
    /\ route.distance = PathLength(route.coordinates)
    /\ route.distance > 0

\* C1: for a route of at least 2 points whose distance is the sum of its
\* segment lengths and is positive, getMidpoint returns the point of the
\* first segment taking the walk past half the distance, at ratio
\* (distance/2 - walked before the segment) / segment length, so that the
\* walk from the start to the returned point is exactly half the distance.
C1_MidpointAtHalfDistance ==
    (Called /\ WellFormedRoute) =>
        LET c == route.coordinates
            d == route.distance
            i == FirstExceeding(c, d)
        IN  /\ SomeSegmentExceeds(c, d)
            /\ midpoint.kind = "point"
            /\ AtRatioOn(c, d, i, midpoint)
            /\ HalfWayOn(c, d, i, midpoint)

\* Scenario 1 of the spec: the straight route (0,0) -> (0,1) -> (0,2), as
\* (lat,lon), of two equal segments gives the middle vertex.
C1_Witness ==
    /\ Called /\ WellFormedRoute
    /\ route.coordinates = <<<<0, 0>>, <<1, 0>>, <<2, 0>>>>
    /\ midpoint = [kind |-> "point", lat |-> Rat(0, 1), lng |-> Rat(1, 1)]

\* C2 (as claimed): getMidpoint of a route of fewer than 2 points fails and
\* never returns a coordinate.
C2_ShortRouteFails ==
    (Called /\ IsRoute /\ Len(route.coordinates) < 2) =>
        midpoint.kind # "point"

NoSegmentExceeds ==
    /\ IsRoute
    /\ Len(route.coordinates) >= 2
    /\ ~SomeSegmentExceeds(route.coordinates, route.distance)

\* C3: for a route of at least 2 points none of whose segments takes the
\* walk past half the distance, getMidpoint returns exactly the coordinate
\* at index floor(pointCount / 2) (0-based) and does not fail.
C3_FallbackIsMiddleIndex ==
    (Called /\ NoSegmentExceeds) =>
        LET c == route.coordinates
            m == c[(Len(c) \div 2) + 1]
        IN  midpoint =
                [kind |-> "point", lat |-> Rat(m[2], 1), lng |-> Rat(m[1], 1)]

\* A 2-point route whose distance overstates its geometry: index 1 of 2.
C3_Witness ==
    /\ Called /\ NoSegmentExceeds
    /\ route.coordinates = <<<<0, 0>>, <<0, 1>>>>
    /\ route.distance = 4
    /\ midpoint = [kind |-> "point", lat |-> Rat(1, 1), lng |-> Rat(0, 1)]

ZeroLengthRoute ==
    /\ IsRoute
    /\ Len(route.coordinates) >= 2
    /\ route.distance = 0
    /\ \A i \in 1..Len(route.coordinates) :
          route.coordinates[i] = route.coordinates[1]

\* C4: for a zero-length route (every coordinate the same point P and
\* distance 0) of at least 2 points, getMidpoint returns P.
C4_ZeroLengthReturnsThePoint ==
    (Called /\ ZeroLengthRoute) =>
        LET P == route.coordinates[1]
        IN  midpoint =
                [kind |-> "point", lat |-> Rat(P[2], 1), lng |-> Rat(P[1], 1)]

C4_Witness ==
    /\ Called /\ ZeroLengthRoute
    /\ Len(route.coordinates) = 3
    /\ route.coordinates[1] = <<1, 2>>
    /\ midpoint = [kind |-> "point", lat |-> Rat(2, 1), lng |-> Rat(1, 1)]

----------------------------------------------------------------------------
(* Properties of the scoring pass, checked under Spec                      *)

\* The derived fields of a scored POI follow from its two travel times.
DerivedFromTimes(poi) ==
    /\ (present(poi.travelTimeFromStart) /\ present(poi.travelTimeFromEnd)) =>
          /\ poi.totalTravelTime =
                Def(val(poi.travelTimeFromStart) + val(poi.travelTimeFromEnd))
          /\ poi.travelTimeDifference =
                Def(Abs(val(poi.travelTimeFromStart)
                        - val(poi.travelTimeFromEnd)))
    /\ (~present(poi.travelTimeFromStart) \/ ~present(poi.travelTimeFromEnd)) =>
          /\ poi.totalTravelTime = undefined
          /\ poi.travelTimeDifference = undefined

\* C5 (as claimed): every POI a scoring pass produced has totalTravelTime
\* and travelTimeDifference equal to the sum and the absolute difference of
\* its two travel times when both are present, and both absent otherwise,
\* on every path of the pass.
C5_DerivedFieldsFollowTimes ==
    /\ \A i \in 1..Len(poisWithTravelTimes) :
          DerivedFromTimes(poisWithTravelTimes[i])
    /\ \A p \in 1..Len(passes) : \A i \in 1..Len(passes[p].slots) :
          passes[p].slots[i].pc = "done" =>
              DerivedFromTimes(passes[p].slots[i].value)

Failed(res) == res.kind = "throw" \/ (res.kind = "result" /\ ~res.isSuccess)

Threw(slot) == slot.startRoute.kind = "throw" \/ slot.endRoute.kind = "throw"

\* What the claim expects of the returned entry of a candidate whose two
\* lookups settled as the slot records.
SoftFailure(slot, candidate) ==
    /\ slot.value.name = candidate.name
    /\ Failed(slot.startRoute) => slot.value.travelTimeFromStart = undefined
    /\ Failed(slot.endRoute) => slot.value.travelTimeFromEnd = undefined
    /\ Threw(slot) =>
          /\ slot.value.travelTimeFromStart = undefined
          /\ slot.value.travelTimeFromEnd = undefined
    /\ (Failed(slot.startRoute) \/ Failed(slot.endRoute) \/ Threw(slot)) =>
          /\ slot.value.totalTravelTime = undefined
          /\ slot.value.travelTimeDifference = undefined
    /\ (slot.startRoute.kind = "result" /\ slot.startRoute.isSuccess
            /\ slot.endRoute.kind = "result") =>
          slot.value.travelTimeFromStart = slot.startRoute.duration
    /\ (slot.endRoute.kind = "result" /\ slot.endRoute.isSuccess) =>
          slot.value.travelTimeFromEnd = slot.endRoute.duration

\* C10 (as claimed): a failed lookup (failure result or thrown error) of one
\* POI never fails the pass: the pass keeps one entry per candidate, the
\* failing POI is kept with absent travel times, and the times of every
\* other POI are those its own lookups gave; a resolved pass leaves as many
\* entries as candidates.
C10_LookupFailureIsSoft ==
    /\ \A p \in 1..Len(passes) :
          /\ Len(passes[p].slots) = Len(passes[p].pois)
          /\ \A i \in 1..Len(passes[p].slots) :
                passes[p].slots[i].pc = "done" =>
                    SoftFailure(passes[p].slots[i], passes[p].pois[i])
    /\ (~isLoading /\ passes = <<>>) =>
          Len(poisWithTravelTimes) = Len(pois)

----------------------------------------------------------------------------
(* Properties of the filter and the sort, checked under SpecRank           *)

Scored == 1..Len(poisWithTravelTimes)

\* POI i of the scored list is rendered.
Retained(i) ==
    \E k \in 1..Len(sortedAndFilteredIdx) : sortedAndFilteredIdx[k] = i

\* The POI's time difference is present and above the selected maximum
\* (minutes).
ExceedsMaximum(poi) ==
    /\ present(poi.travelTimeDifference)
    /\ val(poi.travelTimeDifference) > 60 * maxTimeDifference

MarkedFavorite(poi) == poi.isFavorite = Def(TRUE)

\* C6: the time-difference filter removes exactly the POIs whose
\* travelTimeDifference is present and exceeds the selected maximum: such a
\* POI is never rendered, and with no category and no favorites filter
\* every other POI (difference absent, 0, or at most the maximum) is.
C6_TimeDifferenceFilter ==
    \A i \in Scored :
        /\ ExceedsMaximum(poisWithTravelTimes[i]) => ~Retained(i)
        /\ (activeTab = "all" /\ ~showOnlyFavorites
                /\ ~ExceedsMaximum(poisWithTravelTimes[i])) => Retained(i)

\* After sorting by time difference, one POI above the maximum (901 s
\* against 15 min) is dropped next to one of unknown difference that is kept.
C6_Witness ==
    /\ activeTab = "all" /\ ~showOnlyFavorites
    /\ sortBy = "timeDifference"
    /\ \E i, j \in Scored :
          /\ ExceedsMaximum(poisWithTravelTimes[i]) /\ ~Retained(i)
          /\ poisWithTravelTimes[j].travelTimeDifference = undefined
          /\ Retained(j)

\* The mapping as the claim states it, on the type tag as it is.
ClaimedCategory(type) ==
    IF type \in {"restaurant", "cafe", "bar", "pub", "fast_food"} THEN "food"
    ELSE IF type \in {"park", "cinema", "theatre", "museum"} THEN "activities"
    ELSE IF type \in {"hotel", "hostel", "guest_house"} THEN "lodging"
    ELSE "other"

\* The mapping of the amended claim, on the lower-cased type tag.
AmendedCategory(type) ==
    LET t == toLowerCase(type)
    IN  IF t \in {"restaurant", "cafe", "bar", "pub", "fast_food"} THEN "food"
        ELSE IF t \in {"park", "cinema", "theatre", "theater", "museum"}
        THEN "activities"
        ELSE IF t \in {"hotel", "hostel", "guest_house"} THEN "lodging"
        ELSE "other"

PassesOtherFilters(poi) ==
    /\ ~ExceedsMaximum(poi)
    /\ showOnlyFavorites => MarkedFavorite(poi)

\* C7 (as claimed): the category of a type tag is food for restaurant,
\* cafe, bar, pub, fast_food; activities for park, cinema, theatre, museum;
\* lodging for hotel, hostel, guest_house; other for every other tag; and
\* with a category other than all selected a POI is retained by the
\* category filter iff its type maps to the selected category.
C7_CategoryMappingAsClaimed ==
    \A i \in Scored :
        LET poi == poisWithTravelTimes[i]
        IN  /\ getPoiCategory(poi.type) = ClaimedCategory(poi.type)
            /\ (activeTab # "all" /\ PassesOtherFilters(poi)) =>
                  (Retained(i) <=> ClaimedCategory(poi.type) = activeTab)

\* C7 (amended): the mapping is applied to the lower-cased type tag and
\* also sends theater to activities; with a category other than all
\* selected a POI is retained by the category filter iff its type maps to
\* the selected category.
C7_CategoryMapping ==
    \A i \in Scored :
        LET poi == poisWithTravelTimes[i]
        IN  /\ getPoiCategory(poi.type) = AmendedCategory(poi.type)
            /\ (activeTab # "all" /\ PassesOtherFilters(poi)) =>
                  (Retained(i) <=> AmendedCategory(poi.type) = activeTab)

\* On the activities tab a theater is shown and a hostel is not.
C7_Witness ==
    /\ activeTab = "activities"
    /\ \E i, j \in Scored :
          /\ poisWithTravelTimes[i].type = "theater" /\ Retained(i)
          /\ poisWithTravelTimes[j].type = "hostel" /\ ~Retained(j)

\* The field the numeric sort key reads.
SortKey(poi) ==
    CASE sortBy = "distanceFromStart" -> poi.distanceFromStart
      [] sortBy = "distanceFromEnd" -> poi.distanceFromEnd
      [] sortBy = "totalTime" -> poi.totalTravelTime
      [] sortBy = "timeDifference" -> poi.travelTimeDifference
      [] OTHER -> undefined

\* C8 (as claimed): under each numeric sort key every POI whose value for
\* the key is absent comes after every POI whose value is present.
C8_AbsentSortsLast ==
    sortBy # "name" =>
        \A k, l \in 1..Len(sortedAndFilteredPois) :
            (k < l) =>
                ~(/\ ~present(SortKey(sortedAndFilteredPois[k]))
                  /\ present(SortKey(sortedAndFilteredPois[l])))

\* C9: the ranking is stable: two retained POIs that compare equal under
\* the sort key are rendered in their order in the scored (candidate) list,
\* and sorting the rendered list again by the same key leaves its order.
C9_StableSort ==
    /\ \A k, l \in 1..Len(sortedAndFilteredIdx) :
          (k < l /\ compare(sortedAndFilteredPois[k],
                            sortedAndFilteredPois[l]) = 0) =>
              sortedAndFilteredIdx[k] < sortedAndFilteredIdx[l]
    /\ sort(poisWithTravelTimes, sortedAndFilteredIdx) = sortedAndFilteredIdx
    /\ \A i \in Scored : poisWithTravelTimes[i].name = pois[i].name

\* After sorting by distance from the end, two different POIs tie on it
\* (1000 m) and are rendered in candidate order.
C9_Witness ==
    /\ sortBy = "distanceFromEnd"
    /\ sortedAndFilteredIdx = <<1, 2>>
    /\ sortedAndFilteredPois[1] # sortedAndFilteredPois[2]
    /\ sortedAndFilteredPois[1].distanceFromEnd = Def(1000)
    /\ sortedAndFilteredPois[2].distanceFromEnd = Def(1000)

----------------------------------------------------------------------------
(* The two branches of getMidpoint, checked under SpecMid                  *)

\* q lies between the integers a and b (in either order).
Between(q, a, b) ==
    /\ q.den > 0
    /\ (IF a < b THEN a ELSE b) * q.den <= q.num
    /\ q.num <= (IF a < b THEN b ELSE a) * q.den

\* C17: whenever, for a route of distance >= 0, some segment takes the walk
\* past half the distance, the first such segment (the one getMidpoint
\* interpolates on) has a length > 0 and the ratio (distance/2 - walked) /
\* length is in [0, 1], so the returned point is the point at that ratio and
\* its latitude and longitude lie between those of the segment's endpoints.
C17_CrossingRatioInRange ==
    (Called /\ IsRoute /\ route.distance >= 0
        /\ SomeSegmentExceeds(route.coordinates, route.distance)) =>
        LET c == route.coordinates
            d == route.distance
            i == FirstExceeding(c, d)
            seg == ArcLength(c[i], c[i + 1])
            rn == d - 2 * Walked(c, i)
        IN  /\ seg > 0
            /\ 0 <= rn /\ rn <= 2 * seg
            /\ midpoint.kind = "point"
            /\ AtRatioOn(c, d, i, midpoint)
            /\ Between(midpoint.lat, c[i][2], c[i + 1][2])
            /\ Between(midpoint.lng, c[i][1], c[i + 1][1])

\* A zero-length first segment is passed over and the second segment is
\* entered at ratio 0: distance 0 on (0,0) -> (0,0) -> (0,1) gives (0,0).
C17_Witness ==
    /\ Called /\ IsRoute
    /\ route.coordinates = <<<<0, 0>>, <<0, 0>>, <<0, 1>>>>
    /\ route.distance = 0
    /\ midpoint = [kind |-> "point", lat |-> Rat(0, 1), lng |-> Rat(0, 1)]

\* The returned point m lies on some segment of c at a walk of exactly half
\* of d from the start of c.
AtHalfOf(c, d, m) ==
    \E i \in 1..(Len(c) - 1) :
        /\ Between(m.lat, c[i][2], c[i + 1][2])
        /\ Between(m.lng, c[i][1], c[i + 1][1])
        /\ HalfWayOn(c, d, i, m)

MiddleOf(c) ==
    [kind |-> "point", lat |-> Rat(c[(Len(c) \div 2) + 1][2], 1),
     lng |-> Rat(c[(Len(c) \div 2) + 1][1], 1)]

\* C18 (as claimed): for a route of at least 2 points and distance >= 0,
\* whenever the walk along the whole polyline reaches half the distance,
\* also when it reaches it exactly at the last vertex, getMidpoint returns
\* the point at a walk of half the distance; it returns the middle-index
\* coordinate only when the walk falls short of half the distance.
C18_ReachingHalfGivesThatPoint ==
    (Called /\ IsRoute /\ Len(route.coordinates) >= 2
        /\ route.distance >= 0) =>
        LET c == route.coordinates
            d == route.distance
        IN  /\ midpoint.kind = "point"
            /\ (2 * PathLength(c) >= d) => AtHalfOf(c, d, midpoint)
            /\ (2 * PathLength(c) < d) => midpoint = MiddleOf(c)

\* C18 (amended): for a route of at least 2 points and distance >= 0,
\* getMidpoint returns the middle-index coordinate exactly when the walk
\* along the whole polyline does not exceed half the distance (falls short
\* of it, or equals it at the last vertex); when the walk exceeds half the
\* distance, also when it equals it at an earlier vertex, the result is the
\* point at a walk of half the distance.
C18_FallbackUnlessHalfExceeded ==
    (Called /\ IsRoute /\ Len(route.coordinates) >= 2
        /\ route.distance >= 0) =>
        LET c == route.coordinates
            d == route.distance
        IN  /\ midpoint.kind = "point"
            /\ (2 * PathLength(c) > d) => AtHalfOf(c, d, midpoint)
            /\ (2 * PathLength(c) <= d) => midpoint = MiddleOf(c)

\* Half the distance is reached exactly at the middle vertex of two equal
\* segments, which the second segment returns at ratio 0; with twice the
\* distance half is reached exactly at the last vertex and the middle
\* vertex is returned.
C18_Witness ==
    /\ Called /\ IsRoute
    /\ route.coordinates = <<<<0, 0>>, <<0, 1>>, <<0, 2>>>>
    /\ route.distance \in {2, 4}
    /\ midpoint = [kind |-> "point", lat |-> Rat(1, 1), lng |-> Rat(0, 1)]

----------------------------------------------------------------------------
(* The filter applied twice, checked under SpecRank                        *)

\* The scored POIs the filter of lines 288-310 keeps, in order.
FilteredOnce ==
    LET idx == filterFrom(poisWithTravelTimes, 1)
    IN  [k \in 1..Len(idx) |-> poisWithTravelTimes[idx[k]]]

\* C16: filtering is idempotent: under the same category, maximum time
\* difference and favorites-only setting, the filter applied to the list it
\* returned keeps every element, in order.
C16_FilterIdempotent ==
    /\ filterFrom(FilteredOnce, 1) = [k \in 1..Len(FilteredOnce) |-> k]
    /\ \A k \in 1..Len(FilteredOnce) : keeps(FilteredOnce[k])

\* On the lodging tab with favorites-only on, the filter keeps exactly one
\* of two scored POIs.
C16_Witness ==
    /\ activeTab = "lodging"
    /\ showOnlyFavorites
    /\ Len(poisWithTravelTimes) = 2
    /\ Len(FilteredOnce) = 1

----------------------------------------------------------------------------
(* The favorites-only filter, checked under SpecRank                       *)

InFavorites(poi) ==
    present(poi.osm_id) /\ includes(favorites, val(poi.osm_id))

\* C14 (as claimed): with favorites-only enabled, a POI that passes the
\* category and the time-difference filter is retained iff its id is in the
\* current favorites, whether its lookups returned or threw.
C14_FavoritesOnlyKeepsFavorites ==
    showOnlyFavorites =>
        \A i \in Scored :
            LET poi == poisWithTravelTimes[i]
            IN  (/\ activeTab \in {"all", AmendedCategory(poi.type)}
                 /\ ~ExceedsMaximum(poi)) =>
                    (Retained(i) <=> InFavorites(poi))

----------------------------------------------------------------------------
(* The write of a scoring pass, checked under Spec                         *)

Settled(slot) == slot.pc = "done"

AllSettled(pass) == \A i \in 1..Len(pass.slots) : Settled(pass.slots[i])

\* The step hands the state over from pass p: p leaves the passes in flight.
Resolved(p) == passes' = RemoveAt(passes, p)

\* C11: poisWithTravelTimes (and with it isLoading) is written only by a
\* pass all of whose lookups have settled, once, and what is written is the
\* whole list of that pass, one entry per candidate: no step stores a
\* subset or a partly scored list of a pass still in progress.
C11_WrittenWhenAllSettled ==
    [][(poisWithTravelTimes' # poisWithTravelTimes \/ isLoading # isLoading'
            \/ Len(passes') < Len(passes)) =>
          \/ \E p \in 1..Len(passes) :
                /\ AllSettled(passes[p])
                /\ Resolved(p)
                /\ ~isLoading'
                /\ Len(poisWithTravelTimes') = Len(passes[p].pois)
                /\ \A i \in 1..Len(passes[p].pois) :
                      poisWithTravelTimes'[i] = passes[p].slots[i].value
          \/ /\ isLoading'
             /\ Len(passes') = Len(passes) + 1
             /\ poisWithTravelTimes' = poisWithTravelTimes]_vars

\* A second pass is half way (one callback returned, one waiting) while
\* poisWithTravelTimes still holds the two entries of the first pass.
C11_Witness ==
    /\ Len(passes) = 1
    /\ Len(passes[1].slots) = 2
    /\ Settled(passes[1].slots[2])
    /\ ~Settled(passes[1].slots[1])
    /\ Len(poisWithTravelTimes) = 2
    /\ favorites = <<"n1">>

\* What a lookup result gives for a field (undefined unless it succeeded).
LookedUp(res, field) ==
    IF res.kind = "result" /\ res.isSuccess THEN res[field] ELSE undefined

\* Entry e is the candidate, with the times and distances its own two
\* lookups gave when both returned, and the candidate as it was when one
\* of them threw.
EntryOf(e, candidate, slot) ==
    /\ e.name = candidate.name
    /\ e.type = candidate.type
    /\ e.osm_id = candidate.osm_id
    /\ Threw(slot) => e = candidate
    /\ ~Threw(slot) =>
          /\ e.travelTimeFromStart = LookedUp(slot.startRoute, "duration")
          /\ e.distanceFromStart = LookedUp(slot.startRoute, "distance")
          /\ e.travelTimeFromEnd = LookedUp(slot.endRoute, "duration")
          /\ e.distanceFromEnd = LookedUp(slot.endRoute, "distance")

\* C19: a pass writes each lookup result to the slot of its own candidate:
\* the list a pass stores has the length and the order of its candidate
\* list, and entry i is candidate i with the times looked up for candidate
\* i, in whatever order the lookups settled.
C19_EntryPerCandidate ==
    [][\A p \in 1..Len(passes) :
          (Resolved(p) /\ Len(passes') < Len(passes)) =>
              /\ Len(poisWithTravelTimes') = Len(passes[p].pois)
              /\ \A i \in 1..Len(passes[p].pois) :
                    EntryOf(poisWithTravelTimes'[i], passes[p].pois[i],
                            passes[p].slots[i])]_vars

\* Of the candidates Alpha, Beta the first got both its times and the
\* second none, and the stored list keeps them in that order.
C19_Witness ==
    /\ ~isLoading /\ passes = <<>>
    /\ Len(pois) = 2 /\ Len(poisWithTravelTimes) = 2
    /\ pois[1].name = "Alpha" /\ pois[2].name = "Beta"
    /\ poisWithTravelTimes[1].name = "Alpha"
    /\ poisWithTravelTimes[1].travelTimeFromStart = Def(300)
    /\ poisWithTravelTimes[1].travelTimeFromEnd = Def(900)
    /\ poisWithTravelTimes[2].name = "Beta"
    /\ poisWithTravelTimes[2].travelTimeFromStart = undefined

----------------------------------------------------------------------------
(* Overlapping scoring passes, checked under SpecRace                      *)

\* The pass was started for the inputs the component has now.
ForLatestInputs(pass) == pass.pois = pois /\ pass.favorites = favorites

\* The stored list is a scoring of the current candidates under the current
\* favorites.
ScoresLatestInputs ==
    /\ Len(poisWithTravelTimes) = Len(pois)
    /\ \A i \in 1..Len(pois) :
          /\ poisWithTravelTimes[i].name = pois[i].name
          /\ present(poisWithTravelTimes[i].isFavorite) =>
                (val(poisWithTravelTimes[i].isFavorite)
                    <=> InFavorites(pois[i]))

\* C15 (as claimed): a superseded pass never overwrites the result of a
\* newer one: once every pass has settled poisWithTravelTimes is the
\* scoring of the latest inputs, and isLoading is false only when no pass
\* for the latest inputs is in flight.
C15_LatestPassWins ==
    /\ passes = <<>> => ScoresLatestInputs
    /\ ~isLoading => \A p \in 1..Len(passes) : ~ForLatestInputs(passes[p])

----------------------------------------------------------------------------
(* Properties of ResultsMap, checked under SpecMap                         *)

\* Both route fetches are over and the screen shows the current state.
RoutesSettled == fetchRoutes = "done" /\ ~stale

NumericProps ==
    /\ ~IsNaN(parseFloat(props.startLat)) /\ ~IsNaN(parseFloat(props.startLng))
    /\ ~IsNaN(parseFloat(props.endLat)) /\ ~IsNaN(parseFloat(props.endLng))

\* The route fetch left no data for the selected route.
SelectedRouteFailed ==
    IF props.selectedRoute = "main" THEN mainRoute = Null
    ELSE alternateRoute = Null

\* The mean of two numbers.
Mean(a, b) == Rat(a.num * b.den + b.num * a.den, 2 * a.den * b.den)

\* The great-circle midpoint of the two endpoints; on one meridian (the
\* props of the model) it is the mean of the latitudes.
GeometricMidpoint ==
    [kind |-> "point",
     lat |-> Mean(parseFloat(props.startLat), parseFloat(props.endLat)),
     lng |-> Mean(parseFloat(props.startLng), parseFloat(props.endLng))]

\* C12 (as claimed): when the routing call for the selected route has
\* failed (failure result or throw), the map shows the straight-line
\* midpoint of the two endpoints as the midpoint, and the POI search is
\* made around it.
C12_GeometricFallback ==
    (RoutesSettled /\ NumericProps /\ SelectedRouteFailed) =>
        /\ rendered.shows = "map"
        /\ rendered.midpointLat = GeometricMidpoint.lat
        /\ rendered.midpointLng = GeometricMidpoint.lng
        /\ \E k \in 1..Len(issued) : issued[k].center = GeometricMidpoint

\* C13 (as claimed): when no midpoint can be produced (a coordinate is not
\* numeric and no route gave one), the map with its midpoint marker and
\* centre is not shown at a substitute location such as (0,0) or the
\* start: an error state is shown in its place.
C13_NoSubstituteMidpoint ==
    (RoutesSettled /\ ~NumericProps
        /\ rendered.currentMidpoint.kind = "null") =>
        rendered.shows # "map"

\* C20 (as claimed): for fixed props, once both route fetches have settled
\* a POI search is made again only when the selected route or the route
\* data changed: no step after that makes a searchPoisAction call for a
\* centre, selection and route data a call was made for before.
C20_SearchOncePerRouteData ==
    [][(fetchRoutes = "done" /\ Len(issued') > Len(issued)) =>
          \A k \in 1..Len(issued) : issued[k] # issued'[Len(issued')]]_vars

----------------------------------------------------------------------------
(* The favorites and their localStorage item (part_003 104-122, 328-336)   *)

MaxFavorites == 2

\* The osm_ids of the rendered cards, and of a favorite saved by an
\* earlier search that is not among the candidates of this one.
FavoriteIds == {"n1", "n2"}
SavedIds == FavoriteIds \cup {"n3"}

FavoritePois ==
    <<Poi("Alpha", "restaurant", Def("n1"), undefined, undefined),
      Poi("Delta", "cafe", Def("n2"), undefined, undefined)>>

\* What the effect of lines 118-122 can have stored: a list that is not
\* empty, built by toggleFavorite from [], which never repeats an id.
SavedFavorites ==
    {undefined} \cup
    {Def(list) : list \in
        {l \in SeqsUpTo(SavedIds, MaxFavorites) :
            /\ Len(l) > 0
            /\ \A a, b \in 1..Len(l) : l[a] = l[b] => a = b}}

\* lines 104-115: favorites after the load effect; a missing item leaves
\* the [] of useState (line 93).
loadFavorites(saved) == IF present(saved) THEN val(saved) ELSE <<>>

\* The mount: as InitRace; without a saved item setFavorites is not
\* called and the pass of the first render is the only one.
InitFav ==
    /\ route = Null
    /\ midpoint = NotCalled
    /\ pois = FavoritePois
    /\ savedFavorites \in SavedFavorites
    /\ favorites = loadFavorites(savedFavorites)
    /\ poisWithTravelTimes = <<>>
    /\ isLoading = TRUE
    /\ activeTab = "all"
    /\ sortBy = "totalTime"
    /\ maxTimeDifference = 15
    /\ showOnlyFavorites = FALSE
    /\ passes = IF present(savedFavorites)
                THEN <<newPass(pois, <<>>), newPass(pois, favorites)>>
                ELSE <<newPass(pois, <<>>)>>
    /\ NoResultsMap
    /\ NoHost

NextFav ==
    \/ \E p \in 1..Len(passes) : \E i \in 1..Len(passes[p].slots) :
          StartRouteSettles(p, i, Ok(300, 1000))
    \/ \E p \in 1..Len(passes) : \E i \in 1..Len(passes[p].slots) :
          EndRouteSettles(p, i, Ok(900, 2000))
    \/ \E p \in 1..Len(passes) : PassResolves(p)
    \/ \E poiId \in FavoriteIds : ToggleFavorite(poiId)

SpecFav == InitFav /\ [][NextFav]_vars

\* C26: after any sequence of toggleFavorite calls, the one that removes
\* the last favorite included, the list stored under "mmh-favorites" is
\* the current favorites, so that a remount (the load effect run on the
\* stored item) restores exactly the current favorites.
C26_StorageRoundTrips == loadFavorites(savedFavorites) = favorites

without(list, poiId) == SelectSeq(list, LAMBDA id : id # poiId)

NoDuplicates(list) == \A a, b \in 1..Len(list) : list[a] = list[b] => a = b

Members(list) == {list[k] : k \in 1..Len(list)}

\* C27: a toggleFavorite(id) changes the membership of id and of no other
\* id, leaves the other ids in their order, and keeps a list without
\* duplicates without duplicates; toggling the same id twice gives back
\* the set of favorites there was.
C27_ToggleChangesOneMembership ==
    /\ [][favorites' # favorites =>
            \E poiId \in FavoriteIds :
                /\ includes(favorites', poiId) = ~includes(favorites, poiId)
                /\ without(favorites', poiId) = without(favorites, poiId)
                /\ NoDuplicates(favorites) => NoDuplicates(favorites')]_vars
    /\ [](\A poiId \in SavedIds :
            Members(toggled(toggled(favorites, poiId), poiId))
                = Members(favorites))

\* A favorite saved by an earlier search, then both cards starred.
C27_Witness == favorites = <<"n3", "n1", "n2">>

----------------------------------------------------------------------------
(* The coordinates Map hands to MapComponent (part_002 lines 36-68)        *)

MaxMapCoord == 2

\* What a coordinate prop of type number can hold.
Coordinates ==
    {NaN, Infinity, NegativeInfinity} \cup {Rat(n, 1) : n \in 1..MaxMapCoord}

CoordinateProps ==
    [startLat : Coordinates, startLng : Coordinates,
     endLat : Coordinates, endLng : Coordinates,
     midpointLat : Coordinates, midpointLng : Coordinates,
     alternateMidpointLat : Coordinates, alternateMidpointLng : Coordinates]

\* part_002 lines 36-68: the coordinates of the MapComponent element.
Map(p) ==
    LET validStartLat == validCoordinate(p.startLat, Rat(0, 1))
        validStartLng == validCoordinate(p.startLng, Rat(0, 1))
        validEndLat == validCoordinate(p.endLat, Rat(0, 1))
        validEndLng == validCoordinate(p.endLng, Rat(0, 1))
        validMidLat == validCoordinate(p.midpointLat, validStartLat)
        validMidLng == validCoordinate(p.midpointLng, validStartLng)
        validAltMidpointLat ==
            validCoordinate(p.alternateMidpointLat, validMidLat)
        validAltMidpointLng ==
            validCoordinate(p.alternateMidpointLng, validMidLng)
    IN  [startLat |-> validStartLat, startLng |-> validStartLng,
         endLat |-> validEndLat, endLng |-> validEndLng,
         midpointLat |-> validMidLat, midpointLng |-> validMidLng,
         alternateMidpointLat |-> validAltMidpointLat,
         alternateMidpointLng |-> validAltMidpointLng]

\* One render of Map.
CallMap ==
    /\ mapOut = NotCalled
    /\ mapOut' = Map(mapIn)
    /\ UNCHANGED <<route, midpoint, appData, page, mapIn, locationsTable,
                   actionState>>
    /\ UNCHANGED mapVars
    /\ UNCHANGED poiVars

InitCoord ==
    /\ route = Null
    /\ midpoint = NotCalled
    /\ pois = <<>>
    /\ InitPoiState
    /\ passes = <<>>
    /\ NoResultsMap
    /\ appData = Unmounted
    /\ page = Unmounted
    /\ mapIn \in CoordinateProps
    /\ mapOut = NotCalled
    /\ locationsTable = <<>>
    /\ actionState = NotCalled

NextCoord == CallMap

SpecCoord == InitCoord /\ [][NextCoord]_vars

CoordinateFields == {"startLat", "startLng", "endLat", "endLng", "midpointLat",
                     "midpointLng", "alternateMidpointLat",
                     "alternateMidpointLng"}

Replaced(given, fallback) == IF given.den = 0 THEN fallback ELSE given

\* C28: every coordinate Map passes to MapComponent is a finite number,
\* whatever the props: a start or end coordinate that is not finite is
\* replaced by 0, a midpoint coordinate by the validated start coordinate,
\* an alternate midpoint coordinate by the validated midpoint coordinate.
C28_MapPassesFiniteCoordinates ==
    mapOut # NotCalled =>
        /\ \A f \in CoordinateFields : mapOut[f].den # 0
        /\ \A f \in {"startLat", "startLng", "endLat", "endLng"} :
              mapOut[f] = Replaced(mapIn[f], Rat(0, 1))
        /\ mapOut.midpointLat = Replaced(mapIn.midpointLat, mapOut.startLat)
        /\ mapOut.midpointLng = Replaced(mapIn.midpointLng, mapOut.startLng)
        /\ mapOut.alternateMidpointLat =
              Replaced(mapIn.alternateMidpointLat, mapOut.midpointLat)
        /\ mapOut.alternateMidpointLng =
              Replaced(mapIn.alternateMidpointLng, mapOut.midpointLng)

\* Nothing of the latitudes is finite: the alternate midpoint falls back
\* through the midpoint and the start to 0; the longitudes fall back to
\* the start.
C28_Witness ==
    /\ mapOut # NotCalled
    /\ mapIn.startLat = NaN
    /\ mapIn.midpointLat = Infinity
    /\ mapIn.alternateMidpointLat = NegativeInfinity
    /\ mapOut.alternateMidpointLat = Rat(0, 1)
    /\ mapIn.startLng = Rat(2, 1)
    /\ mapIn.midpointLng = Infinity
    /\ mapOut.alternateMidpointLng = Rat(2, 1)

----------------------------------------------------------------------------
(* The location actions (locations-actions.ts)                             *)

MaxLocations == 2

\* The ids the database gives to new rows, the users and the names.
LocationIds == 1..MaxLocations
UserIds == {"u1", "u2"}
LocationNames == {"home", "work"}

\* InsertLocation as the callers fill it, and the Partial of an update.
InsertLocations == [userId : UserIds, name : LocationNames]
PartialLocations == [name : LocationNames]

\* lines 21-24, 40-43, 63-66, 85-88, 101-104: the catch of every action
\* returns an ActionState without data.
failed(message) ==
    [isSuccess |-> FALSE, message |-> message, data |-> undefined]

\* lines 16-20, 35-39, 58-62, 80-84, 96-100; data is undefined when the
\* destructured array was empty (line 74) and for a delete (line 99).
succeeded(message, data) ==
    [isSuccess |-> TRUE, message |-> message, data |-> data]

returned(name, args, dbError, state) ==
    [action |-> name, args |-> args, dbError |-> dbError, state |-> state]

reverse(list) == [k \in 1..Len(list) |-> list[Len(list) + 1 - k]]

\* The first element of an array, as [x] = array destructures it.
first(list) == IF Len(list) > 0 THEN Def(list[1]) ELSE undefined

usedIds == {locationsTable[k].id : k \in 1..Len(locationsTable)}

locationHostVars == <<appData, page, mapIn, mapOut>>

\* lines 8-25: insert ... returning(); the database picks the id.
createLocationAction(location, dbError) ==
    /\ dbError \/ usedIds # LocationIds
    /\ IF dbError
       THEN /\ actionState' = returned("create", location, TRUE,
                                  failed("Failed to create location"))
            /\ UNCHANGED locationsTable
       ELSE \E id \in LocationIds \ usedIds :
              LET newLocation == [id |-> id, userId |-> location.userId,
                                  name |-> location.name]
              IN  /\ locationsTable' = Append(locationsTable, newLocation)
                  /\ actionState' =
                        returned("create", location, FALSE,
                            succeeded("Location created successfully",
                                      first(<<newLocation>>)))
    /\ UNCHANGED <<route, midpoint>>
    /\ UNCHANGED locationHostVars
    /\ UNCHANGED mapVars
    /\ UNCHANGED poiVars

\* lines 27-44: findMany of a user, newest first.
getLocationsAction(userId, dbError) ==
    /\ actionState' =
          IF dbError
          THEN returned("getAll", userId, TRUE,
                        failed("Failed to get locations"))
          ELSE returned("getAll", userId, FALSE,
                   succeeded("Locations retrieved successfully",
                       Def(reverse(SelectSeq(locationsTable,
                               LAMBDA row : row.userId = userId)))))
    /\ UNCHANGED <<route, midpoint, locationsTable>>
    /\ UNCHANGED locationHostVars
    /\ UNCHANGED mapVars
    /\ UNCHANGED poiVars

\* lines 46-67: findFirst by id; a missing row is reported as a failure.
getLocationAction(id, dbError) ==
    /\ LET location ==
              first(SelectSeq(locationsTable, LAMBDA row : row.id = id))
       IN  actionState' =
              IF dbError
              THEN returned("get", id, TRUE,
                            failed("Failed to get location"))
              ELSE IF ~present(location)
              THEN returned("get", id, FALSE, failed("Location not found"))
              ELSE returned("get", id, FALSE,
                       succeeded("Location retrieved successfully",
                                 location))
    /\ UNCHANGED <<route, midpoint, locationsTable>>
    /\ UNCHANGED locationHostVars
    /\ UNCHANGED mapVars
    /\ UNCHANGED poiVars

\* lines 69-89: update ... where id ... returning(); the first element of
\* the returned rows is the data, whether or not a row matched.
updateLocationAction(id, data, dbError) ==
    /\ IF dbError
       THEN /\ actionState' = returned("update", <<id, data>>, TRUE,
                                  failed("Failed to update location"))
            /\ UNCHANGED locationsTable
       ELSE /\ locationsTable' =
                  [k \in 1..Len(locationsTable) |->
                      IF locationsTable[k].id = id
                      THEN [locationsTable[k] EXCEPT !.name = data.name]
                      ELSE locationsTable[k]]
            /\ actionState' =
                  returned("update", <<id, data>>, FALSE,
                      succeeded("Location updated successfully",
                          first(SelectSeq(locationsTable',
                                    LAMBDA row : row.id = id))))
    /\ UNCHANGED <<route, midpoint>>
    /\ UNCHANGED locationHostVars
    /\ UNCHANGED mapVars
    /\ UNCHANGED poiVars

\* lines 91-105
deleteLocationAction(id, dbError) ==
    /\ IF dbError
       THEN /\ actionState' = returned("delete", id, TRUE,
                                  failed("Failed to delete location"))
            /\ UNCHANGED locationsTable
       ELSE /\ locationsTable' =
                  SelectSeq(locationsTable, LAMBDA row : row.id # id)
            /\ actionState' =
                  returned("delete", id, FALSE,
                      succeeded("Location deleted successfully", undefined))
    /\ UNCHANGED <<route, midpoint>>
    /\ UNCHANGED locationHostVars
    /\ UNCHANGED mapVars
    /\ UNCHANGED poiVars

InitLoc ==
    /\ route = Null
    /\ midpoint = NotCalled
    /\ pois = <<>>
    /\ InitPoiState
    /\ passes = <<>>
    /\ NoResultsMap
    /\ NoHost

NextLoc ==
    \/ \E location \in InsertLocations : \E dbError \in BOOLEAN :
          createLocationAction(location, dbError)
    \/ \E userId \in UserIds : \E dbError \in BOOLEAN :
          getLocationsAction(userId, dbError)
    \/ \E id \in LocationIds : \E dbError \in BOOLEAN :
          getLocationAction(id, dbError)
    \/ \E id \in LocationIds : \E data \in PartialLocations :
          \E dbError \in BOOLEAN : updateLocationAction(id, data, dbError)
    \/ \E id \in LocationIds : \E dbError \in BOOLEAN :
          deleteLocationAction(id, dbError)

SpecLoc == InitLoc /\ [][NextLoc]_vars

ExistingRecords == {locationsTable[k] : k \in 1..Len(locationsTable)}

\* C29: every location action returns an ActionState and does not throw;
\* when the database call fails the state has isSuccess false and no
\* data; and for create, get-one and update, isSuccess true means that
\* data is an existing record, the update whose id matches no row
\* included.
C29_SuccessCarriesARecord ==
    actionState # NotCalled =>
        /\ actionState.state.isSuccess \in BOOLEAN
        /\ actionState.dbError =>
              /\ ~actionState.state.isSuccess
              /\ actionState.state.data = undefined
        /\ (/\ actionState.action \in {"create", "get", "update"}
            /\ actionState.state.isSuccess) =>
              /\ present(actionState.state.data)
              /\ val(actionState.state.data) \in ExistingRecords

----------------------------------------------------------------------------
(* The pages: ResultsPage (results/page.tsx) and SearchResultsPage         *)
(* (part_000)                                                              *)

\* The query parameters of a request; a missing one is undefined, and
\* ?startLat= gives the empty string.
SearchParams ==
    [startLat : {undefined, Def(""), Def("2")},
     selectedRoute : {undefined, Def("main"), Def("alternate")}]

\* The stored searches. midpointLat = midpointLng = "0" is what a search
\* holds before its midpoint is calculated (part_000 lines 89, 93);
\* computed tells a midpoint that was calculated and stored from one that
\* was not, and a calculated one can be (0, 0) as well.
StoredSearches ==
    {s \in [startLocationLat : {"1"}, startLocationLng : {"0"},
            endLocationLat : {"1"}, endLocationLng : {"2"},
            midpointLat : {"0", "1"}, midpointLng : {"0", "1"},
            computed : BOOLEAN] :
        s.computed \/ (s.midpointLat = "0" /\ s.midpointLng = "0")}

\* What auth() resolves to: a session with a user, or none.
AuthResults == {[userId |-> Def("u1")], [userId |-> undefined]}

\* What getSearchAction and calculateMidpointAction resolve to.
GetSearchResults == {FetchFailure} \cup {Success(s) : s \in StoredSearches}
CalculateMidpointResults == {FetchFailure, Success([lat |-> "1", lon |-> "1"])}

NoView == [kind |-> "none"]
Redirect(to) == [kind |-> "redirect", to |-> to]
ErrorPanel(title) == [kind |-> "error", title |-> title]
ResultsMapElement(p) == [kind |-> "ResultsMap", props |-> p]

\* a || b on an optional string and a string
orString(a, b) == IF truthyStr(a) THEN val(a) ELSE b

\* results/page.tsx lines 34-46: destructuring defaults
orDefault(a, b) == IF present(a) THEN val(a) ELSE b

pageOtherVars == <<appData, mapIn, mapOut, locationsTable, actionState>>

\* results/page.tsx lines 28-32 and part_000 lines 35-39: auth() settles.
\* redirect() throws, so nothing after it runs. ResultsPage renders the
\* ResultsMap from the query (lines 34-63); SearchResultsPage renders
\* ResultsMapFetcher (lines 49-52), whose first statement calls
\* getSearchAction (line 67).
AuthSettlesMutant(res) ==
    /\ page.pc = "auth"
    /\ page' =
          IF page.kind = "ResultsPage"
          THEN [page EXCEPT
                  !.pc = "done",
                  !.userId = res.userId,
                  !.view = ResultsMapElement(
                      [startLat |-> orDefault(page.searchParams.startLat, "0"),
                       startLng |-> "0", endLat |-> "0", endLng |-> "0",
                       selectedRoute |->
                          orDefault(page.searchParams.selectedRoute, "main")])]
          ELSE [page EXCEPT
                  !.pc = "getSearch",
                  !.userId = res.userId,
                  !.calls = Append(@, "getSearchAction")]
    /\ UNCHANGED <<route, midpoint>>
    /\ UNCHANGED pageOtherVars
    /\ UNCHANGED mapVars
    /\ UNCHANGED poiVars

AuthSettles(res) ==
    /\ page.pc = "auth"
    /\ page' =
          IF ~truthyStr(res.userId)
          THEN [page EXCEPT !.pc = "done", !.userId = res.userId,
                            !.view = Redirect("/login")]
          ELSE IF page.kind = "ResultsPage"
          THEN [page EXCEPT
                  !.pc = "done",
                  !.userId = res.userId,
                  !.view = ResultsMapElement(
                      [startLat |-> orDefault(page.searchParams.startLat, "0"),
                       startLng |-> "0", endLat |-> "0", endLng |-> "0",
                       selectedRoute |->
                          orDefault(page.searchParams.selectedRoute, "main")])]
          ELSE [page EXCEPT
                  !.pc = "getSearch",
                  !.userId = res.userId,
                  !.calls = Append(@, "getSearchAction")]
    /\ UNCHANGED <<route, midpoint>>
    /\ UNCHANGED pageOtherVars
    /\ UNCHANGED mapVars
    /\ UNCHANGED poiVars

\* part_000 lines 81-87 and 114-125: the element ResultsMapFetcher returns
resultsMapOf(searchParams, search) ==
    ResultsMapElement(
        [startLat |-> orString(searchParams.startLat, search.startLocationLat),
         startLng |-> search.startLocationLng,
         endLat |-> search.endLocationLat,
         endLng |-> search.endLocationLng,
         selectedRoute |-> orString(searchParams.selectedRoute, "main")])

\* part_000 lines 67-99 and 114-125: getSearchAction settles; the stored
\* midpoint "0", "0" makes the fetcher call calculateMidpointAction.
GetSearchSettles(res) ==
    /\ page.pc = "getSearch"
    /\ page' =
          IF ~res.isSuccess
          THEN [page EXCEPT !.pc = "done",
                            !.view = ErrorPanel("Error Finding Search")]
          ELSE IF res.data.midpointLat = "0" /\ res.data.midpointLng = "0"
          THEN [page EXCEPT !.pc = "calculateMidpoint",
                            !.search = Def(res.data),
                            !.calls = Append(@, "calculateMidpointAction")]
          ELSE [page EXCEPT !.pc = "done",
                            !.search = Def(res.data),
                            !.view = resultsMapOf(page.searchParams, res.data)]
    /\ UNCHANGED <<route, midpoint>>
    /\ UNCHANGED pageOtherVars
    /\ UNCHANGED mapVars
    /\ UNCHANGED poiVars

\* part_000 lines 101-125: calculateMidpointAction settles.
CalculateMidpointSettles(res) ==
    /\ page.pc = "calculateMidpoint"
    /\ page' =
          IF ~res.isSuccess
          THEN [page EXCEPT !.pc = "done",
                            !.midpointResult = Def(res),
                            !.view = ErrorPanel("Error Finding Midpoint")]
          ELSE [page EXCEPT !.pc = "done",
                            !.midpointResult = Def(res),
                            !.view = resultsMapOf(page.searchParams,
                                                  val(page.search))]
    /\ UNCHANGED <<route, midpoint>>
    /\ UNCHANGED pageOtherVars
    /\ UNCHANGED mapVars
    /\ UNCHANGED poiVars

\* A request of one of the two pages, at the await of auth().
InitPage ==
    /\ route = Null
    /\ midpoint = NotCalled
    /\ pois = <<>>
    /\ InitPoiState
    /\ passes = <<>>
    /\ NoResultsMap
    /\ appData = Unmounted
    /\ \E kind \in {"ResultsPage", "SearchResultsPage"} :
       \E searchParams \in SearchParams :
          page = [kind |-> kind, searchParams |-> searchParams, pc |-> "auth",
                  userId |-> undefined, search |-> undefined,
                  midpointResult |-> undefined, calls |-> <<>>,
                  view |-> NoView]
    /\ mapIn = NotCalled
    /\ mapOut = NotCalled
    /\ locationsTable = <<>>
    /\ actionState = NotCalled

NextPage ==
    \/ \E res \in AuthResults : AuthSettles(res)
    \/ \E res \in GetSearchResults : GetSearchSettles(res)
    \/ \E res \in CalculateMidpointResults : CalculateMidpointSettles(res)

SpecPage == InitPage /\ [][NextPage]_vars

called(name) == \E k \in 1..Len(page.calls) : page.calls[k] = name

\* C25: neither page loads a search, calculates a midpoint or renders the
\* ResultsMap for a request without a user: when auth() gives no userId
\* the page redirects to /login and has made no call.
C25_RedirectBeforeAnything ==
    ~truthyStr(page.userId) =>
        /\ page.calls = <<>>
        /\ page.view.kind # "ResultsMap"
        /\ page.pc = "done" => page.view = Redirect("/login")

C25_Witness ==
    /\ page.kind = "SearchResultsPage"
    /\ page.pc = "done"
    /\ ~truthyStr(page.userId)
    /\ page.view = Redirect("/login")

\* C24: the fetcher calls calculateMidpointAction exactly when the stored
\* midpointLat and midpointLng are both "0"; a stored midpoint that was
\* computed is not computed again; and when the calculation fails the
\* fetcher renders the error panel and no map.
C24_RecomputeOnlyUncomputed ==
    present(page.search) =>
        /\ called("calculateMidpointAction") <=>
              /\ val(page.search).midpointLat = "0"
              /\ val(page.search).midpointLng = "0"
        /\ val(page.search).computed => ~called("calculateMidpointAction")
        /\ (/\ present(page.midpointResult)
            /\ ~val(page.midpointResult).isSuccess) =>
              page.view = ErrorPanel("Error Finding Midpoint")

----------------------------------------------------------------------------
(* ResultsMap: the centres of the POI searches and the lists they fill     *)

selectedRouteData == IF props.selectedRoute = "main" THEN mainRoute
                     ELSE alternateRoute

HoldsSearchAround(list, r) ==
    list # NoPois =>
        /\ getMidpoint(r).kind # "null"
        /\ list = PoisAround(getMidpoint(r))

mapFallback ==
    [lat |-> validMidpointLat(midpointLatProp(Null)),
     lng |-> validMidpointLng(midpointLngProp(Null))]

\* C23: every searchPoisAction call is centred on the midpoint derived
\* from the route that is selected; no call is made while the selected
\* route is not loaded; and no call is centred on the start point or the
\* (0, 0) the map falls back to.
C23_SearchAtRouteMidpoint ==
    /\ selectedRouteData = Null => issued = <<>>
    /\ \A k \in 1..Len(issued) :
          LET r == IF issued[k].selectedRoute = "main"
                   THEN issued[k].mainRoute ELSE issued[k].alternateRoute
          IN  /\ issued[k].selectedRoute = props.selectedRoute
              /\ r # Null
              /\ issued[k].center = getMidpoint(r)
              /\ issued[k].center.kind # "null"
              /\ <<issued[k].center.lat, issued[k].center.lng>>
                    # <<mapFallback.lat, mapFallback.lng>>

\* The alternate route is selected and loaded after the main one, and a
\* search was made.
C23_Witness ==
    /\ props.selectedRoute = "alternate"
    /\ mainRoute # Null
    /\ Len(issued) >= 1
    /\ issued[1].center = getMidpoint(AlternateRouteData)

----------------------------------------------------------------------------
(* MeetMeHalfwayApp in its results state (meet-me-halfway-app.tsx)         *)

\* What the form hands to handleFindMidpoint (lines 65-68): coordinates
\* as strings, a missing one undefined, and no selectedRoute.
AppDatas ==
    [startLat : {undefined, Def("0")}, startLng : {Def("0")},
     endLat : {Def("2")}, endLng : {undefined, Def("0")},
     selectedRoute : {undefined}]

\* lines 117-128: the props of the ResultsMap element; selectedRoute is
\* the literal "main".
resultsMapProps(data) ==
    [startLat |-> orString(data.startLat, "0"),
     startLng |-> orString(data.startLng, "0"),
     endLat |-> orString(data.endLat, "0"),
     endLng |-> orString(data.endLng, "0"),
     selectedRoute |-> "main"]

\* results-map.tsx lines 296-327: the summary card of a route is rendered
\* when the route is loaded.
cardRendered(r) ==
    /\ rendered.shows = "map"
    /\ IF r = "main" THEN rendered.mainRoute # Null
       ELSE rendered.alternateRoute # Null

\* A click on the card of route r: results-map.tsx lines 300 and 316 call
\* onRouteSelect(r), which is the setAppData of lines 125-127; the new
\* appData renders MeetMeHalfwayApp and with it ResultsMap again.
OnRouteSelect(r) ==
    /\ cardRendered(r)
    /\ appData' = [appData EXCEPT !.selectedRoute = Def(r)]
    /\ props' = resultsMapProps(appData')
    /\ stale' = TRUE
    /\ UNCHANGED <<mainRoute, alternateRoute, isClient, mainPois,
                   alternatePois, isLoadingPois, fetchRoutes, searches,
                   rendered, issued>>
    /\ UNCHANGED <<route, midpoint>>
    /\ UNCHANGED poiVars
    /\ UNCHANGED <<page, mapIn, mapOut, locationsTable, actionState>>

\* After handleFindMidpoint: appState is "results" and ResultsMap mounts
\* as in InitMap.
InitApp ==
    /\ route = Null
    /\ midpoint = NotCalled
    /\ pois = <<>>
    /\ InitPoiState
    /\ passes = <<>>
    /\ appData \in AppDatas
    /\ props = resultsMapProps(appData)
    /\ mainRoute = Null
    /\ alternateRoute = Null
    /\ isClient = TRUE
    /\ mainPois = NoPois
    /\ alternatePois = NoPois
    /\ isLoadingPois = FALSE
    /\ fetchRoutes = "notStarted"
    /\ searches = <<>>
    /\ rendered = [isClient |-> FALSE,
                   mainRoute |-> Null,
                   alternateRoute |-> Null,
                   currentMidpoint |-> Null,
                   shows |-> "placeholder",
                   midpointLat |-> validMidpointLat(midpointLatProp(Null)),
                   midpointLng |-> validMidpointLng(midpointLngProp(Null))]
    /\ stale = TRUE
    /\ issued = <<>>
    /\ page = Unmounted
    /\ mapIn = NotCalled
    /\ mapOut = NotCalled
    /\ locationsTable = <<>>
    /\ actionState = NotCalled

NextApp ==
    \/ Render
    \/ \E res \in MainRouteResults : MainRouteSettles(res)
    \/ \E res \in AlternateRouteResults : AlternateRouteSettles(res)
    \/ \E k \in 1..Len(searches) :
          \E res \in SearchResults(searches[k].center) : SearchSettles(k, res)
    \/ \E r \in {"main", "alternate"} : OnRouteSelect(r)

SpecApp == InitApp /\ [][NextApp]_vars

\* C21: after the user selected route r, the selectedRoute of ResultsMap
\* is r, and the midpoint ResultsMap works with is the midpoint of route
\* r, until the next selection.
C21_SelectionReachesResultsMap ==
    present(appData.selectedRoute) =>
        /\ props.selectedRoute = val(appData.selectedRoute)
        /\ currentMidpoint =
              getMidpoint(IF val(appData.selectedRoute) = "main"
                          THEN mainRoute ELSE alternateRoute)

====
